---------------------------- MODULE Spec2Model ----------------------------
(***************************************************************************)
(* Model of the deploykit command line client (src/unnamed/part_005, the   *)
(* `deploy` and `deploy-hs` commands), its helpers (formatSalt,            *)
(* computeCreate2Address, computeCreate3Address, loadArtifact,             *)
(* compileContract) and its configuration loader (src/src/config.ts).      *)
(*                                                                         *)
(* Byte strings are sequences of naturals 0..255, hex strings sequences    *)
(* of nibbles 0..15, JavaScript strings sequences of UTF-16 code units.    *)
(***************************************************************************)
EXTENDS Integers, Sequences, FiniteSets, TLC

VARIABLES
    cmd,            \* "deploy" | "deploy-hs": the command of this invocation
    privateKey,     \* process.env.PRIVATE_KEY: "absent" | "empty" | "malformed" | "valid"
    file,           \* the parsed config file (all fields empty when there is none)
    pc,             \* position of the action callback
    config,         \* the object returned by loadConfig / loadHubSpokeConfig
    asked,          \* the questions inquirer asked
    artifact,       \* the artifact of the contract (deploy) or of the hub (deploy-hs)
    spokeArtifact,  \* the artifact of the spoke (deploy-hs)
    deployBytecode, \* deployBytecode (deploy) or hubDeployBytecode (deploy-hs)
    spokeDeployBytecode, \* spokeDeployBytecode (deploy-hs)
    formattedSalt,  \* hex string (nibbles) returned by formatSalt
    gasEstimate,    \* the local variable gasEstimate
    estOutcome,     \* "none" | "ok" | "rejected" | "encodeError"
    warnedGas,      \* the gas limit the fallback warning names, 0 when none was logged
    submitCalls,    \* calls of the factory's deploy entry point
    txSent,         \* transactions handed to the RPC node
    txGas,          \* gasLimit override of the submitted call
    txChains,       \* chain list argument of the submitted call
    txCode,         \* bytecode argument(s) of the submitted call
    chainTx,        \* "none" | "pending" | "mined" | "reverted"
    receiptLogs,    \* logs of the receipt, once mined
    rpcLog,         \* RPC requests made, in order
    deployedAddress,\* address read from the event
    computedAddress,\* address computed locally
    compared,       \* whether the address comparison was made
    out,            \* lines written by console.log / console.warn, in order
    errMsg,         \* message printed by the top-level catch
    exited,         \* whether the process has exited
    exitCode,       \* its exit status
    saltIn,         \* formatSalt harness: the input string
    saltOut,        \* formatSalt harness: the outcome
    addrIn,         \* address harness: the arguments of two calls
    addrOut,        \* address harness: the results
    codeAt,         \* factory: per chain, the addresses CREATE2 has given code
    chainLog,       \* factory: per chain, the logs of its transactions, in order
    sentMessages,   \* factory: messages handed to the messenger, not yet relayed
    lastCall,       \* factory: the latest call of an entry point and its outcome
    calls,          \* factory: how many calls each entry point has received
    clientView      \* factory: the client's run, its transaction and what it made of it

runVars == <<cmd, privateKey, file, pc, config, asked, artifact, spokeArtifact,
             deployBytecode, spokeDeployBytecode, formattedSalt,
             gasEstimate, estOutcome, warnedGas, submitCalls, txSent, txGas, txChains, txCode, chainTx,
             receiptLogs, rpcLog, deployedAddress, computedAddress, compared,
             out, errMsg, exited, exitCode>>
saltVars == <<saltIn, saltOut>>
addrVars == <<addrIn, addrOut>>
factoryVars == <<codeAt, chainLog, sentMessages, lastCall, calls, clientView>>
vars == <<runVars, saltVars, addrVars, factoryVars>>

----------------------------------------------------------------------------
(* Bounds of the model *)

MaxPrefixLen == 2
MaxFill == 33
MaxLogs == 2

----------------------------------------------------------------------------
(* Generic helpers *)

RECURSIVE Repeat(_, _)
Repeat(x, n) == IF n <= 0 THEN <<>> ELSE <<x>> \o Repeat(x, n - 1)

RECURSIVE SeqsUpTo(_, _)
SeqsUpTo(S, n) ==
    IF n = 0 THEN {<<>>}
    ELSE LET shorter == SeqsUpTo(S, n - 1)
         IN  shorter \cup {Append(s, x) : s \in {t \in shorter : Len(t) = n - 1}, x \in S}

----------------------------------------------------------------------------
(* ethers.utils: strings and bytes *)

SaltWidth == 32

\* ethers.utils.toUtf8Bytes: walks the UTF-16 code units of the string.
RECURSIVE Utf8From(_, _)
Utf8From(str, i) ==
    IF i > Len(str) THEN [ok |-> TRUE, bytes |-> <<>>]
    ELSE LET c == str[i] IN
      IF c < 128 THEN
        LET rest == Utf8From(str, i + 1)
        IN  [ok |-> rest.ok, bytes |-> <<c>> \o rest.bytes]
      ELSE IF c < 2048 THEN
        LET rest == Utf8From(str, i + 1)
        IN  [ok |-> rest.ok,
             bytes |-> <<(c \div 64) + 192, (c % 64) + 128>> \o rest.bytes]
      ELSE IF c \div 1024 = 54 THEN
        \* high surrogate: the next unit must be a low surrogate
        IF i + 1 > Len(str) \/ str[i + 1] \div 1024 # 55
        THEN [ok |-> FALSE, bytes |-> <<>>]
        ELSE LET pair == 65536 + (c % 1024) * 1024 + (str[i + 1] % 1024)
                 rest == Utf8From(str, i + 2)
             IN  [ok |-> rest.ok,
                  bytes |-> << (pair \div 262144) + 240,
                               ((pair \div 4096) % 64) + 128,
                               ((pair \div 64) % 64) + 128,
                               (pair % 64) + 128 >> \o rest.bytes]
      ELSE
        LET rest == Utf8From(str, i + 1)
        IN  [ok |-> rest.ok,
             bytes |-> << (c \div 4096) + 224,
                          ((c \div 64) % 64) + 128,
                          (c % 64) + 128 >> \o rest.bytes]

toUtf8Bytes(str) ==
    LET r == Utf8From(str, 1)
    IN  IF r.ok THEN r ELSE [ok |-> FALSE, bytes |-> <<>>]

\* ethers.utils.hexlify of a byte array: two nibbles per byte (the "0x" is implicit).
RECURSIVE hexlify(_)
hexlify(bytes) ==
    IF bytes = <<>> THEN <<>>
    ELSE <<Head(bytes) \div 16, Head(bytes) % 16>> \o hexlify(Tail(bytes))

\* ethers.utils.arrayify of a hex string with an even number of digits.
RECURSIVE arrayify(_)
arrayify(hex) ==
    IF Len(hex) < 2 THEN <<>>
    ELSE <<hex[1] * 16 + hex[2]>> \o arrayify(SubSeq(hex, 3, Len(hex)))

\* The padding loop of hexZeroPad: value = "0x0" + value.substring(2)
RECURSIVE PadLoop(_, _)
PadLoop(hex, length) ==
    IF Len(hex) < 2 * length THEN PadLoop(<<0>> \o hex, length) ELSE hex

\* ethers.utils.hexZeroPad(value, length): throws "value out of range" when
\* the value is longer than length bytes.
hexZeroPad(bytes, length) ==
    LET hex == hexlify(bytes)
    IN  IF Len(hex) > 2 * length
        THEN [ok |-> FALSE, hex |-> <<>>]
        ELSE [ok |-> TRUE, hex |-> PadLoop(hex, length)]

\* A formatSalt that cuts an over-long salt to its first 32 bytes instead
\* of throwing.
formatSaltTruncating(salt) ==
    LET u == toUtf8Bytes(salt)
    IN  IF ~u.ok THEN [ok |-> FALSE, hex |-> <<>>]
        ELSE hexZeroPad(SubSeq(u.bytes, 1, IF Len(u.bytes) < SaltWidth
                                           THEN Len(u.bytes) ELSE SaltWidth),
                        SaltWidth)

\* formatSalt(salt) = hexZeroPad(toUtf8Bytes(salt), 32)
formatSalt(salt) ==
    LET u == toUtf8Bytes(salt)
    IN  IF ~u.ok THEN [ok |-> FALSE, hex |-> <<>>]
        ELSE hexZeroPad(u.bytes, SaltWidth)

----------------------------------------------------------------------------
(* The formatSalt harness: every input string of SaltInputs is formatted. *)

\* UTF-16 code units: 'a', e-acute, the euro sign, a high and a low surrogate.
CodeUnits == {97, 233, 8364, 55357, 56832}

SaltInputs ==
    {p \o Repeat(f, n) : p \in SeqsUpTo(CodeUnits, MaxPrefixLen),
                         f \in CodeUnits, n \in 0..MaxFill}

NoSaltOut == [called |-> FALSE, ok |-> FALSE, hex |-> <<>>]

FormatSaltCall ==
    /\ ~saltOut.called
    /\ saltOut' = [called |-> TRUE, ok |-> formatSalt(saltIn).ok,
                   hex |-> formatSalt(saltIn).hex]
    /\ UNCHANGED <<saltIn, runVars, addrVars, factoryVars>>

----------------------------------------------------------------------------
(* Addresses.  keccak256 is kept symbolic: a digest is its preimage between *)
(* two marks that are no byte values, so that distinct preimages give       *)
(* distinct digests; taking the low 20 bytes prefixes a third mark.         *)

keccak256(bytes) == <<-1>> \o bytes \o <<-2>>

\* ethers.utils.hexDataSlice(hash, 12): bytes 12..31 of a digest.
hexDataSlice12(hash) == <<-3>> \o hash

HexDigitValue(c) ==
    CASE c = "0" -> 0 [] c = "1" -> 1 [] c = "2" -> 2 [] c = "3" -> 3
      [] c = "4" -> 4 [] c = "5" -> 5 [] c = "6" -> 6 [] c = "7" -> 7
      [] c = "8" -> 8 [] c = "9" -> 9
      [] c \in {"a", "A"} -> 10 [] c \in {"b", "B"} -> 11
      [] c \in {"c", "C"} -> 12 [] c \in {"d", "D"} -> 13
      [] c \in {"e", "E"} -> 14 [] c \in {"f", "F"} -> 15

HexChars == {"0", "1", "2", "3", "4", "5", "6", "7", "8", "9",
             "a", "b", "c", "d", "e", "f", "A", "B", "C", "D", "E", "F"}

\* /^0x[0-9a-fA-F]{40}$/.test(s), s a sequence of characters
IsEvmAddress(s) ==
    /\ Len(s) = 42
    /\ s[1] = "0"
    /\ s[2] = "x"
    /\ \A i \in 3..42 : s[i] \in HexChars

\* arrayify of a "0x..." character string: the bytes its digits spell.
AddressBytes(s) ==
    [i \in 1..((Len(s) - 2) \div 2) |->
        HexDigitValue(s[2 * i + 1]) * 16 + HexDigitValue(s[2 * i + 2])]

\* An address string: its 20 bytes and the case of its hex digits.
\* ethers.utils.getAddress returns the checksum-cased string.
getAddress(bytes) == [bytes |-> bytes, casing |-> "checksum"]

\* String.prototype.toLowerCase on an address string.
toLowerCase(addr) == [bytes |-> addr.bytes, casing |-> "lower"]

NoAddress == [bytes |-> <<>>, casing |-> "none"]

\* A CREATE2 formula that leaves out the 0xff prefix.
computeCreate2AddressNoPrefix(factoryAddress, salt, deployCode) ==
    getAddress(hexDataSlice12(keccak256(AddressBytes(factoryAddress)
                                        \o arrayify(salt) \o keccak256(deployCode))))

\* A CREATE2 formula that leaves out the init code.
computeCreate2AddressCodeBlind(factoryAddress, salt, deployCode) ==
    getAddress(hexDataSlice12(keccak256(<<255>> \o AddressBytes(factoryAddress)
                                                \o arrayify(salt))))

computeCreate2Address(factoryAddress, salt, deployCode) ==
    LET bytecodeHash == keccak256(deployCode)
        hash == keccak256(<<255>> \o AddressBytes(factoryAddress)
                                  \o arrayify(salt) \o bytecodeHash)
    IN  getAddress(hexDataSlice12(hash))

\* The proxy bytecode hash of Solady's CREATE3.
proxyBytecodeHash ==
    << 33, 195, 93, 190, 27, 52, 74, 36, 136, 207, 51, 33, 214, 206, 84, 47,
       142, 159, 48, 85, 68, 255, 9, 228, 153, 58, 98, 49, 154, 73, 124, 31 >>

computeCreate3Address(factoryAddress, salt) ==
    LET proxyAddressBytes == keccak256(<<255>> \o AddressBytes(factoryAddress)
                                               \o arrayify(salt) \o proxyBytecodeHash)
        proxyAddress == getAddress(hexDataSlice12(proxyAddressBytes))
        rlpEncodedData == <<214, 148>> \o proxyAddress.bytes \o <<1>>
        create3AddressBytes == keccak256(rlpEncodedData)
    IN  getAddress(hexDataSlice12(create3AddressBytes))

----------------------------------------------------------------------------
(* Configuration values *)

Cmds == {"deploy", "deploy-hs"}

\* An array-valued JSON field: absent (or not an array), or an array.
NoArray == [kind |-> "absent", items |-> <<>>]
Arr(items) == [kind |-> "array", items |-> items]

\* 0x5FbDB2315678afecb367f032d93F642f64180aa3
GoodFactory ==
    << "0", "x", "5", "F", "b", "D", "B", "2", "3", "1", "5", "6", "7", "8",
       "a", "f", "e", "c", "b", "3", "6", "7", "f", "0", "3", "2", "d", "9",
       "3", "F", "6", "4", "2", "f", "6", "4", "1", "8", "0", "a", "a", "3" >>
\* one digit short, and a non-hex digit
ShortFactory == SubSeq(GoodFactory, 1, 41)
NonHexFactory == [GoodFactory EXCEPT ![7] = "g"]

GoodUrl == "https://rpc.example.com"
BadUrl == "not a url"
\* new URL(input) does not throw
UrlParses(u) == u = GoodUrl

ShortSalt == <<109, 121>>
FullSalt == Repeat(97, SaltWidth)
LongSalt == Repeat(97, SaltWidth + 1)

EmptyFile ==
    [ chains |-> NoArray, spokeChains |-> NoArray, factoryContract |-> <<>>,
      contractName |-> "", hubContract |-> "", spokeContract |-> "",
      constructorArgs |-> NoArray, hubConstructorArgs |-> NoArray,
      spokeConstructorArgs |-> NoArray, salt |-> <<>>, rpcUrl |-> "",
      readError |-> FALSE ]

\* A complete config file of `deploy` (the README's superchain.json).
DeployFile ==
    [ EmptyFile EXCEPT !.chains = Arr(<<10, 20>>), !.factoryContract = GoodFactory,
                       !.contractName = "Token", !.constructorArgs = Arr(<<>>),
                       !.salt = ShortSalt, !.rpcUrl = GoodUrl ]

\* A complete config file of `deploy-hs` (the README's hubAndSpokeConfig.json).
HubSpokeFile ==
    [ EmptyFile EXCEPT !.chains = Arr(<<10, 20>>), !.factoryContract = GoodFactory,
                       !.hubContract = "Hub", !.spokeContract = "Spoke",
                       !.hubConstructorArgs = Arr(<<>>),
                       !.spokeConstructorArgs = Arr(<<>>),
                       !.salt = ShortSalt, !.rpcUrl = GoodUrl ]

\* Config files that differ from a complete one in one field.
CommonVariants(base) ==
    {base}
    \cup {[base EXCEPT !.chains = c] :
             c \in {NoArray, Arr(<<>>), Arr(<<0>>), Arr(<<-1, 10>>)}}
    \cup {[base EXCEPT !.factoryContract = f] :
             f \in {<<>>, ShortFactory, NonHexFactory}}
    \cup {[base EXCEPT !.salt = s] : s \in {<<>>, FullSalt, LongSalt}}
    \cup {[base EXCEPT !.rpcUrl = u] : u \in {"", BadUrl}}
    \cup {[base EXCEPT !.factoryContract = ShortFactory, !.rpcUrl = BadUrl]}

DeployFiles ==
    {EmptyFile, [EmptyFile EXCEPT !.readError = TRUE]}
    \cup CommonVariants(DeployFile)
    \cup {[DeployFile EXCEPT !.contractName = ""]}
    \cup {[DeployFile EXCEPT !.constructorArgs = a] : a \in {NoArray, Arr(<<7>>)}}

\* `deploy-hs` reads config.spokeChains, a field loadHubSpokeConfig neither
\* asks for nor validates: it is whatever the file holds under that name.
HubSpokeFiles ==
    LET plain ==
            {EmptyFile, [EmptyFile EXCEPT !.readError = TRUE]}
            \cup CommonVariants(HubSpokeFile)
            \cup {[HubSpokeFile EXCEPT !.hubContract = ""],
                  [HubSpokeFile EXCEPT !.spokeContract = ""]}
            \cup {[HubSpokeFile EXCEPT !.hubConstructorArgs = a] :
                     a \in {NoArray, Arr(<<7>>)}}
            \cup {[HubSpokeFile EXCEPT !.spokeConstructorArgs = a] :
                     a \in {NoArray, Arr(<<7>>)}}
    IN  {g \in {[f EXCEPT !.spokeChains = s] :
                    f \in plain, s \in {NoArray, Arr(<<30, 40>>), Arr(<<-1>>)}} :
            g.readError => g.spokeChains = NoArray}

RunFiles(c) == IF c = "deploy" THEN DeployFiles ELSE HubSpokeFiles

PrivateKeys == {"absent", "empty", "malformed", "valid"}

\* Answers a user can give: inquirer asks again until `validate` accepts.
Answers ==
    [ chains : {<<10>>}, factoryContract : {GoodFactory},
      contractName : {"Token"}, hubContract : {"Hub"}, spokeContract : {"Spoke"},
      constructorArgs : {<<>>, <<7>>}, hubConstructorArgs : {<<>>, <<7>>},
      spokeConstructorArgs : {<<>>},
      salt : {ShortSalt, LongSalt}, rpcUrl : {GoodUrl} ]

\* when: !config.chains || !Array.isArray(config.chains) || config.chains.length === 0
NeedsChains(c) == c.kind # "array" \/ Len(c.items) = 0

\* Questions that leave out the optional constructor arguments.
QuestionsRequiredOnly(f) ==
    {q \in {"chainsInput", "factoryContract", "contractName", "salt", "rpcUrl"} :
        \/ q = "chainsInput" /\ NeedsChains(f.chains)
        \/ q = "factoryContract" /\ f.factoryContract = <<>>
        \/ q = "contractName" /\ f.contractName = ""
        \/ q = "salt" /\ f.salt = <<>>
        \/ q = "rpcUrl" /\ f.rpcUrl = ""}

\* The `when` conditions of loadConfig's questions.
Questions(f) ==
    {q \in {"chainsInput", "factoryContract", "contractName",
            "constructorArgsInput", "salt", "rpcUrl"} :
        \/ q = "chainsInput" /\ NeedsChains(f.chains)
        \/ q = "factoryContract" /\ f.factoryContract = <<>>
        \/ q = "contractName" /\ f.contractName = ""
        \/ q = "constructorArgsInput" /\ f.constructorArgs.kind # "array"
        \/ q = "salt" /\ f.salt = <<>>
        \/ q = "rpcUrl" /\ f.rpcUrl = ""}

\* The `when` conditions of loadHubSpokeConfig's questions.
HubSpokeQuestions(f) ==
    {q \in {"chainsInput", "factoryContract", "hubContract", "spokeContract",
            "hubConstructorArgsInput", "spokeConstructorArgsInput", "salt", "rpcUrl"} :
        \/ q = "chainsInput" /\ NeedsChains(f.chains)
        \/ q = "factoryContract" /\ f.factoryContract = <<>>
        \/ q = "hubContract" /\ f.hubContract = ""
        \/ q = "spokeContract" /\ f.spokeContract = ""
        \/ q = "hubConstructorArgsInput" /\ f.hubConstructorArgs.kind # "array"
        \/ q = "spokeConstructorArgsInput" /\ f.spokeConstructorArgs.kind # "array"
        \/ q = "salt" /\ f.salt = <<>>
        \/ q = "rpcUrl" /\ f.rpcUrl = ""}

\* config = { ...config, ...answers }
Merge(f, q, a) ==
    [ f EXCEPT
        !.chains = IF "chainsInput" \in q THEN Arr(a.chains) ELSE @,
        !.factoryContract = IF "factoryContract" \in q THEN a.factoryContract ELSE @,
        !.contractName = IF "contractName" \in q THEN a.contractName ELSE @,
        !.hubContract = IF "hubContract" \in q THEN a.hubContract ELSE @,
        !.spokeContract = IF "spokeContract" \in q THEN a.spokeContract ELSE @,
        !.constructorArgs =
            IF "constructorArgsInput" \in q THEN Arr(a.constructorArgs) ELSE @,
        !.hubConstructorArgs =
            IF "hubConstructorArgsInput" \in q THEN Arr(a.hubConstructorArgs) ELSE @,
        !.spokeConstructorArgs =
            IF "spokeConstructorArgsInput" \in q THEN Arr(a.spokeConstructorArgs) ELSE @,
        !.salt = IF "salt" \in q THEN a.salt ELSE @,
        !.rpcUrl = IF "rpcUrl" \in q THEN a.rpcUrl ELSE @ ]

\* A final validation that does not look at factoryContract.
ValidationErrorsNoAddress(c) ==
    {e \in {"chains", "contractName", "salt", "rpcUrl missing", "rpcUrl invalid"} :
        \/ e = "chains" /\ NeedsChains(c.chains)
        \/ e = "contractName" /\ c.contractName = ""
        \/ e = "salt" /\ c.salt = <<>>
        \/ e = "rpcUrl missing" /\ c.rpcUrl = ""
        \/ e = "rpcUrl invalid" /\ c.rpcUrl # "" /\ ~UrlParses(c.rpcUrl)}

\* The final validation of loadConfig: the errors pushed.
ValidationErrors(c) ==
    {e \in {"chains", "factoryContract", "contractName", "salt",
            "rpcUrl missing", "rpcUrl invalid"} :
        \/ e = "chains" /\ NeedsChains(c.chains)
        \/ e = "factoryContract" /\ ~IsEvmAddress(c.factoryContract)
        \/ e = "contractName" /\ c.contractName = ""
        \/ e = "salt" /\ c.salt = <<>>
        \/ e = "rpcUrl missing" /\ c.rpcUrl = ""
        \/ e = "rpcUrl invalid" /\ c.rpcUrl # "" /\ ~UrlParses(c.rpcUrl)}

\* The final validation of loadHubSpokeConfig.
HubSpokeValidationErrors(c) ==
    {e \in {"chains", "factoryContract", "hubContract", "spokeContract", "salt",
            "rpcUrl missing", "rpcUrl invalid"} :
        \/ e = "chains" /\ NeedsChains(c.chains)
        \/ e = "factoryContract" /\ ~IsEvmAddress(c.factoryContract)
        \/ e = "hubContract" /\ c.hubContract = ""
        \/ e = "spokeContract" /\ c.spokeContract = ""
        \/ e = "salt" /\ c.salt = <<>>
        \/ e = "rpcUrl missing" /\ c.rpcUrl = ""
        \/ e = "rpcUrl invalid" /\ c.rpcUrl # "" /\ ~UrlParses(c.rpcUrl)}

----------------------------------------------------------------------------
(* Artifacts and constructor arguments *)

NoArtifact == [bytecode |-> <<>>, inputs |-> 0]

\* Compiled artifacts forge can leave in ./out: the creation bytecode and
\* the number of (uint256) constructor parameters of the ABI.
Artifacts == { [bytecode |-> <<96, 128>>, inputs |-> 0],
               [bytecode |-> <<96, 96>>, inputs |-> 1] }

\* iface.encodeDeploy(args): one 32-byte word per uint256 argument; throws
\* when the number of values differs from the constructor's parameters.
RECURSIVE EncodeWords(_)
EncodeWords(args) ==
    IF args = <<>> THEN <<>>
    ELSE Repeat(0, 31) \o <<Head(args)>> \o EncodeWords(Tail(args))

encodeDeploy(art, args) ==
    IF Len(args) # art.inputs
    THEN [ok |-> FALSE, bytes |-> <<>>]
    ELSE [ok |-> TRUE, bytes |-> EncodeWords(args)]

\* An encoding that calls the ABI coder for an empty argument list too.
encodedArgsAlways(art, args) == encodeDeploy(art, args.items)

\* args && args.length > 0 ? iface.encodeDeploy(args) : '0x'
encodedArgs(art, args) ==
    IF args.kind = "array" /\ Len(args.items) > 0
    THEN encodeDeploy(art, args.items)
    ELSE [ok |-> TRUE, bytes |-> <<>>]

\* ethers.utils.hexConcat([bytecode, encodedArgs])
hexConcat(bytecode, args) == bytecode \o args

\* Whether the ABI coder accepts a value as uint256[].
EncodableChains(c) == c.kind = "array" /\ \A i \in 1..Len(c.items) : c.items[i] >= 0

----------------------------------------------------------------------------
(* The address harness: computeCreate2Address and computeCreate3Address    *)
(* are applied to the arguments of two calls, made in two environments.    *)

\* The same factory address written in lower case, and another factory.
LowerFactory ==
    [i \in 1..Len(GoodFactory) |->
        CASE GoodFactory[i] = "F" -> "f"
          [] GoodFactory[i] = "D" -> "d"
          [] GoodFactory[i] = "B" -> "b"
          [] OTHER -> GoodFactory[i]]
OtherFactory == [GoodFactory EXCEPT ![42] = "4"]

\* Init codes: bytecode followed by the encoded constructor arguments.
InitCodes ==
    {hexConcat(a.bytecode, EncodeWords(args)) :
        a \in Artifacts, args \in {<<>>, <<7>>, <<8>>}}

\* The arguments of one call and the environment it is made in.
AddrCalls ==
    [ factory : {GoodFactory, LowerFactory, OtherFactory},
      salt : {formatSalt(ShortSalt).hex, formatSalt(FullSalt).hex},
      code : InitCodes,
      chainId : {10, 20} ]

NoAddrIn == <<>>
NoAddrOut == [create2 |-> <<>>, create3 |-> <<>>, differ |-> <<>>]

----------------------------------------------------------------------------
(* The SuperchainFactory contract (src/unnamed/part_004) on several chains, *)
(* the L2-to-L2 messenger that carries its messages, and the client that    *)
(* calls deployEverywhere (src/src/cli.ts, src/unnamed/part_002).           *)

MaxCalls == 2
MaxSteps == 3

\* Chain ids (block.chainid).
Chains == {10, 20, 30}

\* chainIds arguments: empty, two chains in either order, one chain twice.
ChainIdLists == {<<>>, <<10, 20>>, <<30, 20>>, <<20, 20>>}

\* const FACTORY_ADDRESS = '0x5FbDB2315678afecb367f032d93F642f64180aa3'
FACTORY_ADDRESS == GoodFactory

\* address(this): the factory sits at FACTORY_ADDRESS on chains 10 and 20
\* and at another address on chain 30.
FactoryAt(chainid) ==
    IF chainid = 30 THEN AddressBytes(OtherFactory) ELSE AddressBytes(FACTORY_ADDRESS)

\* Predeploys.L2_TO_L2_CROSS_DOMAIN_MESSENGER, 0x4200..0023
_messenger == <<66>> \o Repeat(0, 18) \o <<35>>

\* An account that is neither the messenger nor a factory.
Stranger == Repeat(34, 20)

\* Some other 20 bytes.
OtherAddressBytes == Repeat(17, 20)

ZeroAddress == Repeat(0, 20)

\* Creation bytecode whose execution halts (INVALID): CREATE2 leaves no code.
NoCodeBytecode == <<254>>

\* Creation bytecode whose constructor emits an event with the signature
\* ContractDeployed(address,uint256).
NoisyBytecode == <<96, 160>>

ClientArtifacts == Artifacts \cup {[bytecode |-> NoisyBytecode, inputs |-> 0]}

\* bytes32 salts: what formatSalt gives for two salt strings.
Salts == {arrayify(formatSalt(s).hex) : s \in {ShortSalt, FullSalt}}

\* The client's run has a transaction to come or in flight.
Pending == IF clientView.stage \in {"loading", "sending", "waiting"} THEN 1 ELSE 0

\* The steps taken so far, the client's transaction in flight included.
Steps == calls.deployEverywhere + calls.deploy + calls.other + Pending

\* Arguments callers pass to deployEverywhere.
FactoryRequests ==
    { [bytecode |-> <<96, 128>>, constructorArgs |-> <<>>, salt |-> s] : s \in Salts }
    \cup
    { [bytecode |-> NoCodeBytecode, constructorArgs |-> <<>>,
       salt |-> arrayify(formatSalt(ShortSalt).hex)],
      [bytecode |-> <<96, 96>>, constructorArgs |-> EncodeWords(<<7>>),
       salt |-> arrayify(formatSalt(ShortSalt).hex)] }

\* What others pass to deploy, directly or in a message of their own.
ForeignRequest ==
    [bytecode |-> <<96, 128>>, salt |-> arrayify(formatSalt(ShortSalt).hex)]

\* What the client is run with: the artifact, config.constructorArgs and
\* config.salt, with the values it derives from them (cli.ts:128-134).
ClientInputs ==
    { [bytecode |-> art.bytecode,
       encodedArgs |-> encodedArgs(art, args),
       deployBytecode |-> hexConcat(art.bytecode, encodedArgs(art, args).bytes),
       formattedSalt |-> formatSalt(salt)] :
        art \in ClientArtifacts, args \in {Arr(<<>>), Arr(<<7>>)},
        salt \in {ShortSalt, FullSalt} }

NoMessage == [fn |-> "", bytecode |-> <<>>, salt |-> <<>>]

\* abi.encodeCall(this.deploy, (deployBytecode, salt))
encodeCall(bytecode, salt) == [fn |-> "deploy", bytecode |-> bytecode, salt |-> salt]

\* bytes.concat(bytecode, constructorArgs)
bytes_concat(bytecode, constructorArgs) == bytecode \o constructorArgs

\* A computeAddress that leaves the salt out of the hash.
computeAddressSaltBlind(this, bytecode, salt) ==
    hexDataSlice12(keccak256(<<255>> \o this \o keccak256(bytecode)))

\* computeAddress(bytecode, salt) of the factory at address `this`:
\* address(uint160(uint256(hash))) is the low 20 bytes of the hash.
computeAddress(this, bytecode, salt) ==
    LET hash == keccak256(<<255>> \o this \o salt \o keccak256(bytecode))
    IN  hexDataSlice12(hash)

\* The address the CREATE2 opcode derives for a creation by `deployer`.
Create2Target(deployer, bytecode, salt) ==
    hexDataSlice12(keccak256(<<255>> \o deployer \o salt \o keccak256(bytecode)))

\* create2(0, add(bytecode, 0x20), mload(bytecode), salt) on a chain where
\* the addresses of `existing` hold code: the new address, or zero when the
\* creation fails (the address is taken, or the init code halts).
create2(deployer, bytecode, salt, existing) ==
    LET addr == Create2Target(deployer, bytecode, salt)
    IN  IF addr \in existing \/ (bytecode # <<>> /\ SubSeq(bytecode, 1, 1) = NoCodeBytecode)
        THEN ZeroAddress
        ELSE addr

\* extcodesize(addr) right after the creation: zero at the zero address.
extcodesize(addr) == IF addr = ZeroAddress THEN 0 ELSE 1

\* A _deploy that returns whatever create2 gave instead of reverting.
deployUnchecked(this, bytecode, salt, existing) ==
    [reverted |-> FALSE, addr |-> create2(this, bytecode, salt, existing)]

\* _deploy(bytecode, salt) of the factory at `this`
_deploy(this, bytecode, salt, existing) ==
    LET addr == create2(this, bytecode, salt, existing)
    IN  IF extcodesize(addr) = 0
        THEN [reverted |-> TRUE, addr |-> ZeroAddress]
        ELSE [reverted |-> FALSE, addr |-> addr]

\* The logs the constructor of the created contract emits.
ConstructorLogs(bytecode, addr, chainid) ==
    IF /\ Len(bytecode) >= Len(NoisyBytecode)
       /\ SubSeq(bytecode, 1, Len(NoisyBytecode)) = NoisyBytecode
    THEN << [emitter |-> addr, event |-> "ContractDeployed",
             addr |-> OtherAddressBytes, chainId |-> chainid, message |-> NoMessage] >>
    ELSE <<>>

\* emit ContractDeployed(deployedAddr, block.chainid)
ContractDeployed(this, deployedAddr, chainid) ==
    [emitter |-> this, event |-> "ContractDeployed",
     addr |-> deployedAddr, chainId |-> chainid, message |-> NoMessage]

\* emit CrossChainMessageSent(chainIds[i], address(this))
CrossChainMessageSent(this, chainId) ==
    [emitter |-> this, event |-> "CrossChainMessageSent",
     addr |-> this, chainId |-> chainId, message |-> NoMessage]

\* The messenger's log of a sendMessage(destination, target, message) call.
SentMessage(destination, target, message) ==
    [emitter |-> _messenger, event |-> "SentMessage",
     addr |-> target, chainId |-> destination, message |-> message]

\* A loop that sends to every entry of chainIds, the local chain included.
RECURSIVE SendLoopAll(_, _, _, _)
SendLoopAll(this, chainid, chainIds, message) ==
    IF chainIds = <<>> THEN <<>>
    ELSE << SentMessage(Head(chainIds), this, message),
            CrossChainMessageSent(this, Head(chainIds)) >>
         \o SendLoopAll(this, chainid, Tail(chainIds), message)

\* for (uint i = 0; i < chainIds.length; i++): the logs of the loop, a
\* SentMessage of the messenger followed by the factory's
\* CrossChainMessageSent for every entry that is not the local chain.
RECURSIVE SendLoop(_, _, _, _)
SendLoop(this, chainid, chainIds, message) ==
    IF chainIds = <<>> THEN <<>>
    ELSE (IF chainid = Head(chainIds) THEN <<>>
          ELSE << SentMessage(Head(chainIds), this, message),
                  CrossChainMessageSent(this, Head(chainIds)) >>)
         \o SendLoop(this, chainid, Tail(chainIds), message)

IsSentMessage(log) == log.event = "SentMessage"

\* The messages the messenger holds after a transaction with these logs.
MessagesOf(logs, chainid, sender) ==
    LET sent == SelectSeq(logs, IsSentMessage)
    IN  [i \in 1..Len(sent) |->
            [source |-> chainid, destination |-> sent[i].chainId, sender |-> sender,
             target |-> sent[i].addr, message |-> sent[i].message]]

NoCall ==
    [fn |-> "", chain |-> 0, sender |-> <<>>, xSender |-> <<>>, chainIds |-> <<>>,
     bytecode |-> <<>>, salt |-> <<>>, reverted |-> FALSE, error |-> "",
     addr |-> <<>>, logs |-> <<>>]

\* The client before it has read an artifact or a config.
NoClientInput ==
    [bytecode |-> <<>>, encodedArgs |-> [ok |-> TRUE, bytes |-> <<>>],
     deployBytecode |-> <<>>, formattedSalt |-> [ok |-> FALSE, hex |-> <<>>]]

\* The client's run: where the callback stands (stage), the chain behind
\* config.rpcUrl, the values it derived, its transaction as the chain
\* executed it (tx), and what it has logged and found.
NoClientView ==
    [stage |-> "idle", chain |-> 0, in |-> NoClientInput, tx |-> NoCall,
     ran |-> FALSE, error |-> "", deployedAddress |-> NoAddress,
     computedAddress |-> NoAddress, warned |-> FALSE, lines |-> <<>>]

\* No contract created, nothing logged, no message in flight.
FactoryIdle ==
    /\ codeAt = [c \in Chains |-> {}]
    /\ chainLog = [c \in Chains |-> <<>>]
    /\ sentMessages = <<>>
    /\ lastCall = NoCall
    /\ calls = [deployEverywhere |-> 0, deploy |-> 0, other |-> 0]
    /\ clientView = NoClientView

----------------------------------------------------------------------------
(* The run of one command *)

DeployFallbackGas == 5000000
HubSpokeFallbackGas == 8000000
\* 'Gas estimation failed, using manual gas limit of 5,000,000' / '... of 6,000,000'
DeployWarnedGas == 5000000
HubSpokeWarnedGas == 6000000
\* Estimates the node can answer with.
GasEstimates == {1200000, 8000000}

NoError == [text |-> "", lines |-> 0]

\* A handler that reports the error and ends the process with status 0.
ThrowExitZero(text, lines) ==
    /\ pc' = "Failed"
    /\ errMsg' = [text |-> text, lines |-> lines]
    /\ exited' = TRUE
    /\ exitCode' = 0

\* A handler that prints the first line of the message only.
ThrowFirstLine(text, lines) ==
    /\ pc' = "Failed"
    /\ errMsg' = [text |-> text, lines |-> 1]
    /\ exited' = TRUE
    /\ exitCode' = 1

\* catch (error) { console.error('Error:', error.message); process.exit(1); }
Throw(text, lines) ==
    /\ pc' = "Failed"
    /\ errMsg' = [text |-> text, lines |-> lines]
    /\ exited' = TRUE
    /\ exitCode' = 1

Init ==
    /\ cmd \in Cmds
    /\ privateKey \in PrivateKeys
    /\ file \in RunFiles(cmd)
    /\ pc = "Idle"
    /\ config = EmptyFile
    /\ asked = {}
    /\ artifact = NoArtifact
    /\ spokeArtifact = NoArtifact
    /\ deployBytecode = <<>>
    /\ spokeDeployBytecode = <<>>
    /\ formattedSalt = <<>>
    /\ gasEstimate = 0
    /\ estOutcome = "none"
    /\ warnedGas = 0
    /\ submitCalls = 0
    /\ txSent = 0
    /\ txGas = 0
    /\ txChains = NoArray
    /\ txCode = <<>>
    /\ chainTx = "none"
    /\ receiptLogs = <<>>
    /\ rpcLog = <<>>
    /\ deployedAddress = NoAddress
    /\ computedAddress = NoAddress
    /\ compared = FALSE
    /\ out = <<>>
    /\ errMsg = NoError
    /\ exited = FALSE
    /\ exitCode = 0
    /\ saltIn = <<>>
    /\ saltOut = NoSaltOut
    /\ addrIn = NoAddrIn
    /\ addrOut = NoAddrOut
    /\ FactoryIdle

\* const config = await loadConfig(configPath)
LoadConfig ==
    /\ pc = "Idle"
    /\ cmd = "deploy"
    /\ \E a \in Answers :
         LET q == Questions(file)
             c == Merge(file, q, a)
             errors == ValidationErrors(c)
         IN  /\ asked' = q
             /\ out' = IF file.readError THEN Append(out, "ConfigReadError") ELSE out
             /\ IF errors = {}
                THEN /\ config' = c
                     /\ pc' = "ConfigLoaded"
                     /\ UNCHANGED <<errMsg, exited, exitCode>>
                ELSE /\ Throw("Configuration validation failed", 1 + Cardinality(errors))
                     /\ UNCHANGED config
    /\ UNCHANGED <<cmd, warnedGas, privateKey, file, artifact, spokeArtifact, deployBytecode,
                   spokeDeployBytecode, formattedSalt, gasEstimate, estOutcome,
                   submitCalls, txSent, txGas, txChains, txCode, chainTx, receiptLogs, rpcLog,
                   deployedAddress, computedAddress, compared, saltVars, addrVars, factoryVars>>

\* const config = await loadHubSpokeConfig(configPath)
LoadHubSpokeConfig ==
    /\ pc = "Idle"
    /\ cmd = "deploy-hs"
    /\ \E a \in Answers :
         LET q == HubSpokeQuestions(file)
             c == Merge(file, q, a)
             errors == HubSpokeValidationErrors(c)
         IN  /\ asked' = q
             /\ out' = IF file.readError THEN Append(out, "ConfigReadError") ELSE out
             /\ IF errors = {}
                THEN /\ config' = c
                     /\ pc' = "ConfigLoaded"
                     /\ UNCHANGED <<errMsg, exited, exitCode>>
                ELSE /\ Throw("Configuration validation failed", 1 + Cardinality(errors))
                     /\ UNCHANGED config
    /\ UNCHANGED <<cmd, warnedGas, privateKey, file, artifact, spokeArtifact, deployBytecode,
                   spokeDeployBytecode, formattedSalt, gasEstimate, estOutcome,
                   submitCalls, txSent, txGas, txChains, txCode, chainTx, receiptLogs, rpcLog,
                   deployedAddress, computedAddress, compared, saltVars, addrVars, factoryVars>>

\* A bug that lets a run without a key go on.
KeyMissingNever(key) == FALSE

\* A key check that treats only an unset variable as missing.
KeyMissingOnlyAbsent(key) == key = "absent"

\* !privateKey
KeyMissing(key) == key \in {"absent", "empty"}

\* if (!privateKey) throw new Error('PRIVATE_KEY environment variable is not set. ...')
CheckPrivateKey ==
    /\ pc = "ConfigLoaded"
    /\ IF KeyMissing(privateKey)
       THEN Throw("PRIVATE_KEY environment variable is not set", 1)
       ELSE /\ pc' = "KeyChecked"
            /\ UNCHANGED <<errMsg, exited, exitCode>>
    /\ UNCHANGED <<cmd, warnedGas, privateKey, file, config, asked, artifact, spokeArtifact,
                   deployBytecode, spokeDeployBytecode, formattedSalt, gasEstimate,
                   estOutcome, submitCalls, txSent, txGas, txChains, txCode, chainTx,
                   receiptLogs, rpcLog, deployedAddress, computedAddress, compared,
                   out, saltVars, addrVars, factoryVars>>

\* compileContract(): logs, then execSync('forge build'), which throws when
\* the build fails.
CompileContract ==
    /\ pc = "KeyChecked"
    /\ out' = Append(out, "Compiling")
    /\ \E built \in BOOLEAN :
         IF built
         THEN /\ pc' = "Compiled"
              /\ UNCHANGED <<errMsg, exited, exitCode>>
         ELSE Throw("Command failed: forge build", 1)
    /\ UNCHANGED <<cmd, warnedGas, privateKey, file, config, asked, artifact, spokeArtifact,
                   deployBytecode, spokeDeployBytecode, formattedSalt, gasEstimate,
                   estOutcome, submitCalls, txSent, txGas, txChains, txCode, chainTx,
                   receiptLogs, rpcLog, deployedAddress, computedAddress, compared,
                   saltVars, addrVars, factoryVars>>

\* loadArtifact(config.contractName) / loadArtifact(config.hubContract)
LoadArtifact ==
    /\ pc = "Compiled"
    /\ \E found \in BOOLEAN, a \in Artifacts :
         IF found
         THEN /\ artifact' = a
              /\ pc' = IF cmd = "deploy" THEN "ArtifactsReady" ELSE "HubLoaded"
              /\ UNCHANGED <<errMsg, exited, exitCode>>
         ELSE /\ Throw("Artifact not found", 1)
              /\ UNCHANGED artifact
    /\ UNCHANGED <<cmd, warnedGas, privateKey, file, config, asked, spokeArtifact,
                   deployBytecode, spokeDeployBytecode, formattedSalt, gasEstimate,
                   estOutcome, submitCalls, txSent, txGas, txChains, txCode, chainTx,
                   receiptLogs, rpcLog, deployedAddress, computedAddress, compared,
                   out, saltVars, addrVars, factoryVars>>

\* loadArtifact(config.spokeContract)
LoadSpokeArtifact ==
    /\ pc = "HubLoaded"
    /\ \E found \in BOOLEAN, a \in Artifacts :
         IF found
         THEN /\ spokeArtifact' = a
              /\ pc' = "ArtifactsReady"
              /\ UNCHANGED <<errMsg, exited, exitCode>>
         ELSE /\ Throw("Artifact not found", 1)
              /\ UNCHANGED spokeArtifact
    /\ UNCHANGED <<cmd, warnedGas, privateKey, file, config, asked, artifact,
                   deployBytecode, spokeDeployBytecode, formattedSalt, gasEstimate,
                   estOutcome, submitCalls, txSent, txGas, txChains, txCode, chainTx,
                   receiptLogs, rpcLog, deployedAddress, computedAddress, compared,
                   out, saltVars, addrVars, factoryVars>>

\* deploy: encodedArgs and deployBytecode
EncodeArgs ==
    /\ pc = "ArtifactsReady"
    /\ cmd = "deploy"
    /\ LET e == encodedArgs(artifact, config.constructorArgs)
       IN  IF e.ok
           THEN /\ deployBytecode' = hexConcat(artifact.bytecode, e.bytes)
                /\ pc' = "ArgsEncoded"
                /\ UNCHANGED <<errMsg, exited, exitCode>>
           ELSE /\ Throw("types/values length mismatch", 1)
                /\ UNCHANGED deployBytecode
    /\ UNCHANGED <<cmd, warnedGas, privateKey, file, config, asked, artifact, spokeArtifact,
                   spokeDeployBytecode, formattedSalt, gasEstimate,
                   estOutcome, submitCalls, txSent, txGas, txChains, txCode, chainTx,
                   receiptLogs, rpcLog, deployedAddress, computedAddress, compared,
                   out, saltVars, addrVars, factoryVars>>

\* deploy-hs: hubEncodedArgs, hubDeployBytecode, spokeEncodedArgs, spokeDeployBytecode.
\* When the spoke's arguments do not encode, hubDeployBytecode has been assigned.
EncodeHubSpokeArgs ==
    /\ pc = "ArtifactsReady"
    /\ cmd = "deploy-hs"
    /\ LET h == encodedArgs(artifact, config.hubConstructorArgs)
           s == encodedArgs(spokeArtifact, config.spokeConstructorArgs)
       IN  IF h.ok /\ s.ok
           THEN /\ deployBytecode' = hexConcat(artifact.bytecode, h.bytes)
                /\ spokeDeployBytecode' = hexConcat(spokeArtifact.bytecode, s.bytes)
                /\ pc' = "ArgsEncoded"
                /\ UNCHANGED <<errMsg, exited, exitCode>>
           ELSE /\ Throw("types/values length mismatch", 1)
                /\ deployBytecode' = IF h.ok THEN hexConcat(artifact.bytecode, h.bytes)
                                     ELSE deployBytecode
                /\ UNCHANGED spokeDeployBytecode
    /\ UNCHANGED <<cmd, warnedGas, privateKey, file, config, asked, artifact, spokeArtifact,
                   formattedSalt, gasEstimate,
                   estOutcome, submitCalls, txSent, txGas, txChains, txCode, chainTx,
                   receiptLogs, rpcLog, deployedAddress, computedAddress, compared,
                   out, saltVars, addrVars, factoryVars>>

\* A bug that lets an unformattable salt through.
SaltRejectedNever(r) == FALSE

\* hexZeroPad (or toUtf8Bytes) threw inside formatSalt
SaltRejected(r) == ~r.ok

\* const formattedSalt = formatSalt(config.salt)
FormatSalt ==
    /\ pc = "ArgsEncoded"
    /\ LET r == formatSalt(config.salt)
       IN  IF SaltRejected(r)
           THEN /\ Throw("value out of range", 1)
                /\ UNCHANGED formattedSalt
           ELSE /\ formattedSalt' = r.hex
                /\ pc' = "SaltFormatted"
                /\ UNCHANGED <<errMsg, exited, exitCode>>
    /\ UNCHANGED <<cmd, warnedGas, privateKey, file, config, asked, artifact, spokeArtifact,
                   deployBytecode, spokeDeployBytecode, gasEstimate,
                   estOutcome, submitCalls, txSent, txGas, txChains, txCode, chainTx,
                   receiptLogs, rpcLog, deployedAddress, computedAddress, compared,
                   out, saltVars, addrVars, factoryVars>>

\* provider, wallet and factory objects: new ethers.Wallet throws on a key
\* that is no 32-byte hex string.  No request is sent yet.
SetUpProvider ==
    /\ pc = "SaltFormatted"
    /\ IF privateKey = "valid"
       THEN /\ pc' = "Ready"
            /\ UNCHANGED <<errMsg, exited, exitCode>>
       ELSE Throw("invalid private key", 1)
    /\ UNCHANGED <<cmd, warnedGas, privateKey, file, config, asked, artifact, spokeArtifact,
                   deployBytecode, spokeDeployBytecode, formattedSalt, gasEstimate,
                   estOutcome, submitCalls, txSent, txGas, txChains, txCode, chainTx,
                   receiptLogs, rpcLog, deployedAddress, computedAddress, compared,
                   out, saltVars, addrVars, factoryVars>>

\* The chain list handed to the factory: config.chains in `deploy`,
\* config.spokeChains in `deploy-hs`.
ChainsArgument == IF cmd = "deploy" THEN config.chains ELSE config.spokeChains

\* A fallback that forgets the limit.
FallbackGasLimitZero(c) == 0

\* gasEstimate = 5000000 (deploy) / gasEstimate = 8000000 (deploy-hs)
FallbackGasLimit(c) == IF c = "deploy" THEN DeployFallbackGas ELSE HubSpokeFallbackGas

\* The gas limit the warning of each command names.
WarnedGasLimit(c) == IF c = "deploy" THEN DeployWarnedGas ELSE HubSpokeWarnedGas

\* A bug that estimates before the arguments are encoded.
CanEstimateEarly == pc \in {"Ready", "ArtifactsReady"}

CanEstimate == pc = "Ready"

\* try { gasEstimate = await provider.estimateGas({...}) } catch { fallback }
\* encodeFunctionData runs inside the try: when it throws, no request is made.
EstimateGas ==
    /\ CanEstimate
    /\ IF EncodableChains(ChainsArgument)
       THEN \E accepted \in BOOLEAN, estimate \in GasEstimates :
              /\ rpcLog' = Append(rpcLog, "eth_estimateGas")
              /\ IF accepted
                 THEN /\ gasEstimate' = estimate
                      /\ estOutcome' = "ok"
                      /\ out' = Append(out, "EstimatedGas")
                      /\ UNCHANGED warnedGas
                 ELSE /\ gasEstimate' = FallbackGasLimit(cmd)
                      /\ estOutcome' = "rejected"
                      /\ out' = Append(out, "WarnGasFallback")
                      /\ warnedGas' = WarnedGasLimit(cmd)
       ELSE /\ gasEstimate' = FallbackGasLimit(cmd)
            /\ estOutcome' = "encodeError"
            /\ out' = Append(out, "WarnGasFallback")
            /\ warnedGas' = WarnedGasLimit(cmd)
            /\ UNCHANGED rpcLog
    /\ pc' = "GasEstimated"
    /\ UNCHANGED <<cmd, privateKey, file, config, asked, artifact, spokeArtifact,
                   deployBytecode, spokeDeployBytecode, formattedSalt,
                   submitCalls, txSent, txGas, txChains, txCode, chainTx,
                   receiptLogs, deployedAddress, computedAddress, compared,
                   errMsg, exited, exitCode, saltVars, addrVars, factoryVars>>

\* A bug that submits again while the transaction is pending.
CanSubmitAgain == pc \in {"GasEstimated", "Submitted"}

CanSubmit == pc = "GasEstimated"

\* const tx = await factory.deployContract(chains, deployBytecode, salt, {gasLimit})
\* const tx = await factory.deployHubAndSpokes(hub, spoke, salt, spokeChains, {gasLimit})
SubmitTransaction ==
    /\ CanSubmit
    /\ submitCalls' = submitCalls + 1
    /\ txGas' = gasEstimate
    /\ txChains' = ChainsArgument
    /\ txCode' = IF cmd = "deploy" THEN <<deployBytecode>>
                                   ELSE <<deployBytecode, spokeDeployBytecode>>
    /\ IF EncodableChains(ChainsArgument)
       THEN \E accepted \in BOOLEAN :
              /\ rpcLog' = Append(rpcLog, "eth_sendRawTransaction")
              /\ txSent' = txSent + 1
              /\ IF accepted
                 THEN /\ chainTx' = "pending"
                      /\ pc' = "Submitted"
                      /\ UNCHANGED <<errMsg, exited, exitCode>>
                 ELSE /\ Throw("transaction rejected", 1)
                      /\ UNCHANGED chainTx
       ELSE /\ Throw("invalid argument", 1)
            /\ UNCHANGED <<rpcLog, txSent, chainTx>>
    /\ UNCHANGED <<cmd, warnedGas, privateKey, file, config, asked, artifact, spokeArtifact,
                   deployBytecode, spokeDeployBytecode, formattedSalt, gasEstimate,
                   estOutcome, receiptLogs, deployedAddress, computedAddress, compared,
                   out, saltVars, addrVars, factoryVars>>

\* A verification that uses the direct scheme in both commands.
ExpectedAddressDirect ==
    computeCreate2Address(config.factoryContract, formattedSalt, deployBytecode)

\* The address the local computation will give for this run.
ExpectedAddress ==
    IF cmd = "deploy"
    THEN computeCreate2Address(config.factoryContract, formattedSalt, deployBytecode)
    ELSE computeCreate3Address(config.factoryContract, formattedSalt)

\* Logs a receipt can hold: the factory's ContractDeployed with the expected
\* or with another address, a ContractDeployed of another contract, the
\* factory's CrossChainMessageSent, and a log of an event the ABI lacks.
LogKinds ==
    { [emitter |-> "factory", event |-> "ContractDeployed", addr |-> ExpectedAddress.bytes],
      [emitter |-> "factory", event |-> "ContractDeployed", addr |-> OtherAddressBytes],
      [emitter |-> "other", event |-> "ContractDeployed", addr |-> OtherAddressBytes],
      [emitter |-> "factory", event |-> "CrossChainMessageSent", addr |-> <<>>],
      [emitter |-> "other", event |-> "Unknown", addr |-> <<>>] }

\* The chain: the pending transaction is mined, successfully or reverted.
MineTransaction ==
    /\ chainTx = "pending"
    /\ \E status \in {"mined", "reverted"}, logs \in SeqsUpTo(LogKinds, MaxLogs) :
         /\ chainTx' = status
         /\ receiptLogs' = IF status = "mined" THEN logs ELSE <<>>
    /\ UNCHANGED <<cmd, warnedGas, privateKey, file, pc, config, asked, artifact, spokeArtifact,
                   deployBytecode, spokeDeployBytecode, formattedSalt, gasEstimate,
                   estOutcome, submitCalls, txSent, txGas, txChains, txCode, rpcLog,
                   deployedAddress, computedAddress, compared, out, errMsg, exited,
                   exitCode, saltVars, addrVars, factoryVars>>

\* A wait that gives up on a pending transaction.
WaitOverWithTimeout == TRUE

\* tx.wait() settles once the transaction is mined.
WaitOver == chainTx # "pending"

\* const receipt = await tx.wait(): rejects when the transaction reverted.
AwaitReceipt ==
    /\ pc = "Submitted"
    /\ WaitOver
    /\ IF chainTx = "mined"
       THEN /\ pc' = "Confirmed"
            /\ UNCHANGED <<errMsg, exited, exitCode>>
       ELSE Throw("transaction failed", 1)
    /\ UNCHANGED <<cmd, warnedGas, privateKey, file, config, asked, artifact, spokeArtifact,
                   deployBytecode, spokeDeployBytecode, formattedSalt, gasEstimate,
                   estOutcome, submitCalls, txSent, txGas, txChains, txCode, chainTx,
                   receiptLogs, rpcLog, deployedAddress, computedAddress, compared,
                   out, saltVars, addrVars, factoryVars>>

\* A predicate that takes any log the ABI can parse.
IsDeployedLogAnyParsed(log) == log.event \in {"ContractDeployed", "CrossChainMessageSent"}

\* try { return factoryInterface.parseLog(log).name === 'ContractDeployed' }
\* catch { return false }: parseLog goes by the log's topic alone.
IsDeployedLog(log) == log.event = "ContractDeployed"

\* receipt.logs.find(...): the index of the first such log, 0 when none.
RECURSIVE FindFrom(_, _)
FindFrom(logs, i) ==
    IF i > Len(logs) THEN 0
    ELSE IF IsDeployedLog(logs[i]) THEN i
    ELSE FindFrom(logs, i + 1)

\* factoryInterface.parseLog(log) throws on a log whose topic is of no event
\* of factoryAbi (ContractDeployed, CrossChainMessageSent).
parseLogThrows(log) == log.event \notin {"ContractDeployed", "CrossChainMessageSent"}

\* The catch block of the find predicate ran: find calls the predicate on
\* the logs up to the first one it takes, on all of them when it takes none.
ParseErrorCaught(logs) ==
    LET i == FindFrom(logs, 1)
        visited == IF i = 0 THEN Len(logs) ELSE i
    IN  \E j \in 1..visited : parseLogThrows(logs[j])

\* Transaction details are logged, then the event is looked up.
ExtractEvent ==
    /\ pc = "Confirmed"
    /\ LET i == FindFrom(receiptLogs, 1)
       IN  IF i = 0
           THEN /\ Throw("ContractDeployed event not found in receipt", 1)
                /\ out' = out \o <<"TxHash", "GasUsed">>
                /\ UNCHANGED deployedAddress
           ELSE /\ deployedAddress' = getAddress(receiptLogs[i].addr)
                /\ out' = out \o <<"TxHash", "GasUsed", "DeployedAddress">>
                /\ pc' = "EventFound"
                /\ UNCHANGED <<errMsg, exited, exitCode>>
    /\ UNCHANGED <<cmd, warnedGas, privateKey, file, config, asked, artifact, spokeArtifact,
                   deployBytecode, spokeDeployBytecode, formattedSalt, gasEstimate,
                   estOutcome, submitCalls, txSent, txGas, txChains, txCode, chainTx,
                   receiptLogs, rpcLog, computedAddress, compared, saltVars, addrVars, factoryVars>>

\* A comparison that never reports a difference.
AddressesDifferNever(a, b) == FALSE

\* A comparison of the strings as they are.
AddressesDifferExact(a, b) == a # b

\* deployedAddress.toLowerCase() !== computedAddress.toLowerCase()
AddressesDiffer(a, b) == toLowerCase(a) # toLowerCase(b)

\* The computed address is logged and compared; a difference only warns.
VerifyAddress ==
    /\ pc = "EventFound"
    /\ computedAddress' = ExpectedAddress
    /\ compared' = TRUE
    /\ out' = IF AddressesDiffer(deployedAddress, ExpectedAddress)
              THEN out \o <<"ComputedAddress", "WarnMismatch">>
              ELSE Append(out, "ComputedAddress")
    /\ pc' = "Verified"
    /\ UNCHANGED <<cmd, warnedGas, privateKey, file, config, asked, artifact, spokeArtifact,
                   deployBytecode, spokeDeployBytecode, formattedSalt, gasEstimate,
                   estOutcome, submitCalls, txSent, txGas, txChains, txCode, chainTx,
                   receiptLogs, rpcLog, deployedAddress, errMsg, exited, exitCode,
                   saltVars, addrVars, factoryVars>>

\* A closing step of deploy that asks the node for the network first.
FinishAfterNetworkRequest ==
    /\ pc = "Verified"
    /\ cmd = "deploy"
    /\ rpcLog' = Append(rpcLog, "eth_chainId")
    /\ \E answered \in BOOLEAN :
         IF answered
         THEN /\ out' = Append(out, "Initiated")
              /\ pc' = "Done"
              /\ exited' = TRUE
              /\ exitCode' = 0
              /\ UNCHANGED errMsg
         ELSE /\ Throw("could not detect network", 1)
              /\ UNCHANGED out
    /\ UNCHANGED <<cmd, warnedGas, privateKey, file, config, asked, artifact, spokeArtifact,
                   deployBytecode, spokeDeployBytecode, formattedSalt, gasEstimate,
                   estOutcome, submitCalls, txSent, txGas, txChains, txCode, chainTx,
                   receiptLogs, deployedAddress, computedAddress, compared,
                   saltVars, addrVars, factoryVars>>

\* deploy: console.log('Contract deployment initiated across specified chains.')
\* and the callback returns: the process ends with status 0.
Finish ==
    /\ pc = "Verified"
    /\ cmd = "deploy"
    /\ out' = Append(out, "Initiated")
    /\ pc' = "Done"
    /\ exited' = TRUE
    /\ exitCode' = 0
    /\ UNCHANGED <<cmd, warnedGas, privateKey, file, config, asked, artifact, spokeArtifact,
                   deployBytecode, spokeDeployBytecode, formattedSalt, gasEstimate,
                   estOutcome, submitCalls, txSent, txGas, txChains, txCode, chainTx,
                   receiptLogs, rpcLog, deployedAddress, computedAddress, compared,
                   errMsg, saltVars, addrVars, factoryVars>>

\* deploy-hs: the first closing line awaits provider.getNetwork(), a request
\* that can fail; then the three closing lines are logged.
FinishHubSpoke ==
    /\ pc = "Verified"
    /\ cmd = "deploy-hs"
    /\ rpcLog' = Append(rpcLog, "eth_chainId")
    /\ \E answered \in BOOLEAN :
         IF answered
         THEN /\ out' = out \o <<"HubDeployed", "SpokeInitiated", "SameAddress">>
              /\ pc' = "Done"
              /\ exited' = TRUE
              /\ exitCode' = 0
              /\ UNCHANGED errMsg
         ELSE /\ Throw("could not detect network", 1)
              /\ UNCHANGED out
    /\ UNCHANGED <<cmd, warnedGas, privateKey, file, config, asked, artifact, spokeArtifact,
                   deployBytecode, spokeDeployBytecode, formattedSalt, gasEstimate,
                   estOutcome, submitCalls, txSent, txGas, txChains, txCode, chainTx,
                   receiptLogs, deployedAddress, computedAddress, compared, saltVars, addrVars, factoryVars>>

Next ==
    \/ LoadConfig
    \/ LoadHubSpokeConfig
    \/ CheckPrivateKey
    \/ CompileContract
    \/ LoadArtifact
    \/ LoadSpokeArtifact
    \/ EncodeArgs
    \/ EncodeHubSpokeArgs
    \/ FormatSalt
    \/ SetUpProvider
    \/ EstimateGas
    \/ SubmitTransaction
    \/ MineTransaction
    \/ AwaitReceipt
    \/ ExtractEvent
    \/ VerifyAddress
    \/ Finish
    \/ FinishHubSpoke

Spec == Init /\ [][Next]_vars

----------------------------------------------------------------------------
(* formatSalt on its own: every input of SaltInputs, one call each. *)

InitSalt ==
    /\ cmd = "deploy"
    /\ privateKey = "valid"
    /\ file = EmptyFile
    /\ pc = "Idle"
    /\ config = EmptyFile
    /\ asked = {}
    /\ artifact = NoArtifact
    /\ spokeArtifact = NoArtifact
    /\ deployBytecode = <<>>
    /\ spokeDeployBytecode = <<>>
    /\ formattedSalt = <<>>
    /\ gasEstimate = 0
    /\ estOutcome = "none"
    /\ warnedGas = 0
    /\ submitCalls = 0
    /\ txSent = 0
    /\ txGas = 0
    /\ txChains = NoArray
    /\ txCode = <<>>
    /\ chainTx = "none"
    /\ receiptLogs = <<>>
    /\ rpcLog = <<>>
    /\ deployedAddress = NoAddress
    /\ computedAddress = NoAddress
    /\ compared = FALSE
    /\ out = <<>>
    /\ errMsg = NoError
    /\ exited = FALSE
    /\ exitCode = 0
    /\ saltIn \in SaltInputs
    /\ saltOut = NoSaltOut
    /\ addrIn = NoAddrIn
    /\ addrOut = NoAddrOut
    /\ FactoryIdle

NextSalt == FormatSaltCall

SpecSalt == InitSalt /\ [][NextSalt]_vars

----------------------------------------------------------------------------
(* The address functions on their own: two calls of each, on arguments     *)
(* drawn from AddrCalls.                                                    *)

InitAddress ==
    /\ cmd = "deploy"
    /\ privateKey = "valid"
    /\ file = EmptyFile
    /\ pc = "Idle"
    /\ config = EmptyFile
    /\ asked = {}
    /\ artifact = NoArtifact
    /\ spokeArtifact = NoArtifact
    /\ deployBytecode = <<>>
    /\ spokeDeployBytecode = <<>>
    /\ formattedSalt = <<>>
    /\ gasEstimate = 0
    /\ estOutcome = "none"
    /\ warnedGas = 0
    /\ submitCalls = 0
    /\ txSent = 0
    /\ txGas = 0
    /\ txChains = NoArray
    /\ txCode = <<>>
    /\ chainTx = "none"
    /\ receiptLogs = <<>>
    /\ rpcLog = <<>>
    /\ deployedAddress = NoAddress
    /\ computedAddress = NoAddress
    /\ compared = FALSE
    /\ out = <<>>
    /\ errMsg = NoError
    /\ exited = FALSE
    /\ exitCode = 0
    /\ saltIn = <<>>
    /\ saltOut = NoSaltOut
    /\ addrIn \in {<<a, b>> : a \in AddrCalls, b \in AddrCalls}
    /\ addrOut = NoAddrOut
    /\ FactoryIdle

ComputeCreate2Call ==
    /\ Len(addrIn) = 2
    /\ addrOut.create2 = <<>>
    /\ addrOut' = [addrOut EXCEPT !.create2 =
           [i \in 1..2 |-> computeCreate2Address(addrIn[i].factory, addrIn[i].salt,
                                                 addrIn[i].code)]]
    /\ UNCHANGED <<addrIn, runVars, saltVars, factoryVars>>

ComputeCreate3Call ==
    /\ Len(addrIn) = 2
    /\ addrOut.create3 = <<>>
    /\ addrOut' = [addrOut EXCEPT !.create3 =
           [i \in 1..2 |-> computeCreate3Address(addrIn[i].factory, addrIn[i].salt)]]
    /\ UNCHANGED <<addrIn, runVars, saltVars, factoryVars>>

NextAddress == ComputeCreate2Call \/ ComputeCreate3Call

SpecAddress == InitAddress /\ [][NextAddress]_vars

----------------------------------------------------------------------------
(* The address comparison on its own: one comparison of two address        *)
(* strings, each in any spelling.                                          *)

\* Address strings: 20-byte values in lower case, checksum case or upper case.
AddressStrings ==
    [ bytes : { computeCreate2Address(GoodFactory, formatSalt(ShortSalt).hex,
                                      <<96, 128>>).bytes,
                computeCreate2Address(GoodFactory, formatSalt(ShortSalt).hex,
                                      <<96, 96>>).bytes,
                computeCreate3Address(GoodFactory, formatSalt(ShortSalt).hex).bytes,
                OtherAddressBytes },
      casing : {"lower", "checksum", "upper"} ]

InitCompare ==
    /\ cmd = "deploy"
    /\ privateKey = "valid"
    /\ file = EmptyFile
    /\ pc = "Idle"
    /\ config = EmptyFile
    /\ asked = {}
    /\ artifact = NoArtifact
    /\ spokeArtifact = NoArtifact
    /\ deployBytecode = <<>>
    /\ spokeDeployBytecode = <<>>
    /\ formattedSalt = <<>>
    /\ gasEstimate = 0
    /\ estOutcome = "none"
    /\ warnedGas = 0
    /\ submitCalls = 0
    /\ txSent = 0
    /\ txGas = 0
    /\ txChains = NoArray
    /\ txCode = <<>>
    /\ chainTx = "none"
    /\ receiptLogs = <<>>
    /\ rpcLog = <<>>
    /\ deployedAddress = NoAddress
    /\ computedAddress = NoAddress
    /\ compared = FALSE
    /\ out = <<>>
    /\ errMsg = NoError
    /\ exited = FALSE
    /\ exitCode = 0
    /\ saltIn = <<>>
    /\ saltOut = NoSaltOut
    /\ addrIn \in {<<a, b>> : a \in AddressStrings, b \in AddressStrings}
    /\ addrOut = NoAddrOut
    /\ FactoryIdle

CompareCall ==
    /\ Len(addrIn) = 2
    /\ addrOut.differ = <<>>
    /\ addrOut' = [addrOut EXCEPT !.differ = <<AddressesDiffer(addrIn[1], addrIn[2])>>]
    /\ UNCHANGED <<addrIn, runVars, saltVars, factoryVars>>

NextCompare == CompareCall

SpecCompare == InitCompare /\ [][NextCompare]_vars

----------------------------------------------------------------------------
(* Vocabulary of the properties *)

Occurs(seq, x) == \E i \in 1..Len(seq) : seq[i] = x

CountOf(seq, x) == Cardinality({i \in 1..Len(seq) : seq[i] = x})

KeyErrorText == "PRIVATE_KEY environment variable is not set"
ConfigErrorText == "Configuration validation failed"
EventErrorText == "ContractDeployed event not found in receipt"
NetworkErrorText == "could not detect network"

\* No log of the receipt carries the ContractDeployed topic.
NoDeployedLog ==
    \A i \in 1..Len(receiptLogs) : receiptLogs[i].event # "ContractDeployed"

\* The environment holds no usable PRIVATE_KEY.
KeyUnset == privateKey \in {"absent", "empty"}

\* The file holds a field that is present and malformed: prompts cannot
\* repair it and the final validation rejects it.
FileInvalid ==
    \/ file.factoryContract # <<>> /\ ~IsEvmAddress(file.factoryContract)
    \/ file.rpcUrl # "" /\ ~UrlParses(file.rpcUrl)

\* The event's address and the computed address differ as 20-byte values.
Mismatch == compared /\ deployedAddress.bytes # computedAddress.bytes

\* The stage of the orchestrator's state machine a position belongs to.
StageOf(p) ==
    CASE p \in {"Idle", "ConfigLoaded", "KeyChecked", "Compiled", "HubLoaded"} -> "Idle"
      [] p \in {"SaltFormatted", "Ready"} -> "SaltFormatted"
      [] p \in {"Confirmed", "EventFound"} -> "Confirmed"
      [] OTHER -> p

StageOrder == << "Idle", "ArtifactsReady", "ArgsEncoded", "SaltFormatted",
                "GasEstimated", "Submitted", "Confirmed", "Verified", "Done" >>

StageIndex(s) == CHOOSE i \in 1..Len(StageOrder) : StageOrder[i] = s

----------------------------------------------------------------------------
(* C1: in both commands, once the receipt is confirmed and none of its logs *)
(* parses as ContractDeployed, the run fails with the event-not-found       *)
(* error and status 1, and the verification step is never reached: no       *)
(* expected address is computed and no comparison is made.                  *)
C1_EventNotFoundIsFatal ==
    (chainTx = "mined" /\ NoDeployedLog /\ pc \notin {"Submitted", "Confirmed"})
        => /\ pc = "Failed"
           /\ errMsg.text = EventErrorText
           /\ exited
           /\ exitCode = 1
           /\ ~compared
           /\ computedAddress = NoAddress
           /\ ~Occurs(out, "ComputedAddress")

C1_Witness ==
    /\ cmd = "deploy-hs"
    /\ chainTx = "mined"
    /\ Len(receiptLogs) = 2
    /\ NoDeployedLog
    /\ pc = "Failed"
    /\ errMsg.text = EventErrorText

(* C2: in both commands, when the estimateGas request is rejected the run   *)
(* goes on to the submission, the factory call is made, and the gas limit   *)
(* of the submitted call is the command's fallback constant (5000000 for    *)
(* deploy, 8000000 for deploy-hs).                                          *)
C2_RejectedEstimateFallsBack ==
    estOutcome = "rejected"
        => /\ pc \in {"GasEstimated", "Submitted", "Confirmed", "EventFound",
                      "Verified", "Done", "Failed"}
           /\ gasEstimate = (IF cmd = "deploy" THEN DeployFallbackGas
                                               ELSE HubSpokeFallbackGas)
           /\ pc # "GasEstimated"
                => /\ submitCalls = 1
                   /\ txSent = 1
                   /\ Occurs(rpcLog, "eth_sendRawTransaction")
                   /\ txGas = (IF cmd = "deploy" THEN DeployFallbackGas
                                                 ELSE HubSpokeFallbackGas)

C2_Witness ==
    /\ cmd = "deploy-hs"
    /\ estOutcome = "rejected"
    /\ chainTx = "pending"
    /\ txGas = HubSpokeFallbackGas

(* C3 as stated: in both commands, when the event's address differs from    *)
(* the computed one, a warning line is written and the process exits 0.     *)
C3_MismatchAlwaysExitsZero ==
    (Mismatch /\ exited) => (Occurs(out, "WarnMismatch") /\ exitCode = 0)

(* C3 amended: a mismatch writes the warning line and is never itself       *)
(* fatal; deploy then exits 0, and deploy-hs exits 0 unless the             *)
(* provider.getNetwork() request of its closing lines fails, which exits 1. *)
C3_MismatchOnlyWarns ==
    Mismatch
        => /\ Occurs(out, "WarnMismatch")
           /\ pc \in {"Verified", "Done", "Failed"}
           /\ exited /\ cmd = "deploy" => pc = "Done" /\ exitCode = 0
           /\ exited /\ cmd = "deploy-hs"
                => \/ pc = "Done" /\ exitCode = 0
                   \/ /\ pc = "Failed"
                      /\ exitCode = 1
                      /\ errMsg.text = NetworkErrorText
                      /\ rpcLog[Len(rpcLog)] = "eth_chainId"

C3_Witness ==
    /\ cmd = "deploy-hs"
    /\ Mismatch
    /\ Occurs(out, "WarnMismatch")
    /\ pc = "Done"
    /\ exitCode = 0

(* C4 as stated: in both commands, when PRIVATE_KEY is absent the         *)
(* process exits 1 with a message naming PRIVATE_KEY and makes no RPC       *)
(* request.                                                                 *)
C4_MissingKeyAlwaysNamed ==
    (privateKey = "absent" /\ exited)
        => /\ exitCode = 1
           /\ errMsg.text = KeyErrorText
           /\ rpcLog = <<>>

(* C4 amended: when PRIVATE_KEY is absent (or empty) the run never goes     *)
(* past the key check, makes no RPC request and no factory call, and exits  *)
(* 1; the message names PRIVATE_KEY when config loading succeeded, and is   *)
(* the config validation message when the config file holds a malformed     *)
(* field.                                                                   *)
C4_MissingKeyExitsBeforeRpc ==
    KeyUnset
        => /\ rpcLog = <<>>
           /\ submitCalls = 0
           /\ txSent = 0
           /\ chainTx = "none"
           /\ pc \in {"Idle", "ConfigLoaded", "Failed"}
           /\ exited
                => /\ exitCode = 1
                   /\ errMsg.lines >= 1
                   /\ errMsg.text = (IF FileInvalid THEN ConfigErrorText
                                                    ELSE KeyErrorText)

C4_Witness ==
    /\ cmd = "deploy-hs"
    /\ privateKey = "absent"
    /\ exited
    /\ exitCode = 1
    /\ errMsg.text = KeyErrorText
    /\ rpcLog = <<>>

(* C5 as stated: with PRIVATE_KEY absent, the missing-key error is raised   *)
(* before config loading, validation and prompting, so no question is       *)
(* asked and no other error is reported in its place.                       *)
C5_MissingKeyReportedFirst ==
    (privateKey = "absent" /\ exited)
        => /\ errMsg.text = KeyErrorText
           /\ asked = {}
           /\ ~Occurs(out, "ConfigReadError")

(* C5 amended: the missing-key error is raised only after config loading,   *)
(* prompting and validation have completed successfully, and before         *)
(* compilation, artifact loading and any RPC request; when validation       *)
(* fails, that error is reported instead.                                   *)
C5_MissingKeyReportedAfterConfig ==
    /\ errMsg.text = KeyErrorText
         => /\ KeyUnset
            /\ asked = (IF cmd = "deploy" THEN Questions(file)
                                          ELSE HubSpokeQuestions(file))
            /\ (IF cmd = "deploy" THEN ValidationErrors(config)
                                  ELSE HubSpokeValidationErrors(config)) = {}
            /\ ~Occurs(out, "Compiling")
            /\ artifact = NoArtifact
            /\ rpcLog = <<>>
    /\ (KeyUnset /\ pc # "Idle")
         => /\ pc \in {"ConfigLoaded", "Failed"}
            /\ pc = "Failed" /\ ~FileInvalid => errMsg.text = KeyErrorText
            /\ pc = "Failed" /\ FileInvalid => errMsg.text = ConfigErrorText

C5_Witness ==
    /\ cmd = "deploy"
    /\ privateKey = "absent"
    /\ asked # {}
    /\ pc = "Failed"
    /\ errMsg.text = KeyErrorText

(* C6: a run passes its stages only in the order Idle, ArtifactsReady,      *)
(* ArgsEncoded, SaltFormatted, GasEstimated, Submitted, Confirmed,          *)
(* Verified, Done: every step stays in its stage, enters the next one, or   *)
(* enters Failed, and nothing follows Failed (or Done).                     *)
C6_StagesInOrder ==
    [][ LET s == StageOf(pc)
            t == StageOf(pc')
        IN  \/ t = s
            \/ /\ s \notin {"Failed", "Done"}
               /\ t = "Failed"
            \/ /\ s \notin {"Failed", "Done"}
               /\ t # "Failed"
               /\ StageIndex(t) = StageIndex(s) + 1 ]_vars

C6_Witness ==
    /\ cmd = "deploy-hs"
    /\ pc = "Done"
    /\ estOutcome = "rejected"
    /\ compared

(* C7: a run in which config validation, compilation, artifact loading      *)
(* (hub or spoke), constructor-argument encoding or salt formatting failed  *)
(* has exited with status 1 without any factory call, transaction or RPC    *)
(* request; and a run whose config file is malformed, whose salt cannot be  *)
(* formatted or whose arguments cannot be encoded never gets past that      *)
(* step.                                                                    *)
C7_EarlyFailuresTouchNoChain ==
    /\ errMsg.text \in {ConfigErrorText, "Command failed: forge build",
                        "Artifact not found", "types/values length mismatch",
                        "value out of range"}
         => /\ pc = "Failed"
            /\ exited
            /\ exitCode = 1
            /\ submitCalls = 0
            /\ txSent = 0
            /\ chainTx = "none"
            /\ rpcLog = <<>>
    /\ (FileInvalid /\ pc # "Idle")
         => pc = "Failed" /\ errMsg.text = ConfigErrorText
    /\ (pc \notin {"Idle", "Failed"}
          /\ Len(toUtf8Bytes(config.salt).bytes) > SaltWidth)
         => /\ pc \in {"ConfigLoaded", "KeyChecked", "Compiled", "HubLoaded",
                       "ArtifactsReady", "ArgsEncoded"}
            /\ rpcLog = <<>>
            /\ submitCalls = 0
    /\ (pc \notin {"Idle", "Failed"}
          /\ artifact # NoArtifact
          /\ LET a == IF cmd = "deploy" THEN config.constructorArgs
                                        ELSE config.hubConstructorArgs
             IN  Len(a.items) \notin {0, artifact.inputs})
         => /\ pc \in {"HubLoaded", "ArtifactsReady"}
            /\ rpcLog = <<>>
            /\ submitCalls = 0

C7_Witness ==
    /\ cmd = "deploy-hs"
    /\ pc = "Failed"
    /\ errMsg.text = "Artifact not found"
    /\ artifact # NoArtifact
    /\ spokeArtifact = NoArtifact
    /\ rpcLog = <<>>

(* C8: one invocation calls the factory's deploy entry point at most once   *)
(* and hands at most one transaction to the node, for any number of target  *)
(* chains and whatever fails.                                               *)
C8_AtMostOneSubmission ==
    /\ submitCalls <= 1
    /\ txSent <= 1
    /\ CountOf(rpcLog, "eth_sendRawTransaction") <= 1
    /\ txSent <= submitCalls
    /\ chainTx # "none" => txSent = 1

C8_Witness ==
    /\ cmd = "deploy"
    /\ submitCalls = 1
    /\ Len(txChains.items) = 2
    /\ pc = "Failed"
    /\ chainTx = "reverted"

(* C9: while the submitted transaction is unconfirmed the run stays in the  *)
(* submitted state: it does not exit (neither Done nor Failed) and it makes *)
(* no further factory call or transaction; only the settled wait lets it    *)
(* move on.                                                                 *)
C9_BlocksUntilReceipt ==
    [][ (pc = "Submitted" /\ chainTx = "pending")
            => /\ pc' = "Submitted"
               /\ ~exited'
               /\ submitCalls' = submitCalls
               /\ txSent' = txSent
               /\ rpcLog' = rpcLog ]_vars

C9_Witness ==
    /\ pc = "Submitted"
    /\ chainTx = "pending"
    /\ submitCalls = 1
    /\ ~exited

(* C10 as stated: for any (well-formed) input string formatSalt returns     *)
(* exactly 32 bytes, also when the UTF-8 encoding is longer than 32 bytes.  *)
C10_AlwaysThirtyTwoBytes ==
    (saltOut.called /\ toUtf8Bytes(saltIn).ok)
        => /\ saltOut.ok
           /\ Len(arrayify(saltOut.hex)) = SaltWidth

(* C10 amended: for an input string whose UTF-8 encoding has at most 32     *)
(* bytes (empty and exactly 32 included) formatSalt returns exactly 32      *)
(* bytes, the UTF-8 bytes left-padded with zero bytes; for a longer         *)
(* encoding, or a string with an unpaired high surrogate, it throws.        *)
C10_PadsOrThrows ==
    saltOut.called
        => LET u == toUtf8Bytes(saltIn)
           IN  IF u.ok /\ Len(u.bytes) <= SaltWidth
               THEN /\ saltOut.ok
                    /\ Len(saltOut.hex) = 2 * SaltWidth
                    /\ Len(arrayify(saltOut.hex)) = SaltWidth
                    /\ arrayify(saltOut.hex)
                         = Repeat(0, SaltWidth - Len(u.bytes)) \o u.bytes
               ELSE ~saltOut.ok

C10_Witness ==
    /\ saltOut.called
    /\ saltOut.ok
    /\ Len(saltIn) < SaltWidth
    /\ Len(toUtf8Bytes(saltIn).bytes) = SaltWidth

(* C11: computeCreate2Address(F, S, B) is the low 20 bytes of              *)
(* keccak256(0xff ++ F ++ S ++ keccak256(B)), and two calls with the same   *)
(* factory address, salt and init code give the same address whatever the   *)
(* chain id they are made for and however the factory address is spelled.   *)
C11_Create2Formula ==
    addrOut.create2 # <<>>
        => /\ \A i \in 1..2 :
                /\ addrOut.create2[i].bytes =
                     hexDataSlice12(keccak256(<<255>>
                                        \o AddressBytes(addrIn[i].factory)
                                        \o arrayify(addrIn[i].salt)
                                        \o keccak256(addrIn[i].code)))
                /\ addrOut.create2[i].casing = "checksum"
           /\ ( /\ AddressBytes(addrIn[1].factory) = AddressBytes(addrIn[2].factory)
                /\ addrIn[1].salt = addrIn[2].salt
                /\ addrIn[1].code = addrIn[2].code )
                => addrOut.create2[1] = addrOut.create2[2]

C11_Witness ==
    /\ addrOut.create2 # <<>>
    /\ addrIn[1].factory = GoodFactory
    /\ addrIn[2].factory = LowerFactory
    /\ addrIn[1].salt = addrIn[2].salt
    /\ addrIn[1].code = addrIn[2].code
    /\ Len(addrIn[1].code) > 2
    /\ addrIn[1].chainId # addrIn[2].chainId
    /\ addrOut.create2[1] = addrOut.create2[2]

(* C12: under the direct scheme, for one factory address and one formatted  *)
(* salt, two init codes that differ (in the bytecode or in the encoded      *)
(* constructor arguments) give different computed addresses.                *)
C12_DifferentCodeDifferentAddress ==
    ( /\ addrOut.create2 # <<>>
      /\ AddressBytes(addrIn[1].factory) = AddressBytes(addrIn[2].factory)
      /\ addrIn[1].salt = addrIn[2].salt
      /\ addrIn[1].code # addrIn[2].code )
        => addrOut.create2[1].bytes # addrOut.create2[2].bytes

C12_Witness ==
    /\ addrOut.create2 # <<>>
    /\ addrIn[1].factory = addrIn[2].factory
    /\ addrIn[1].salt = addrIn[2].salt
    /\ Len(addrIn[1].code) = Len(addrIn[2].code)
    /\ SubSeq(addrIn[1].code, 1, 2) = SubSeq(addrIn[2].code, 1, 2)
    /\ addrIn[1].code # addrIn[2].code
    /\ addrOut.create2[1].bytes # addrOut.create2[2].bytes

(* C13: in deploy-hs the computed address is the proxy-scheme address of    *)
(* (factoryContract, formatted salt): the low 20 bytes of                   *)
(* keccak256(0xd694 ++ proxy ++ 0x01), proxy being the low 20 bytes of      *)
(* keccak256(0xff ++ factory ++ salt ++ proxy bytecode hash).  No hub or    *)
(* spoke bytecode or constructor argument enters it, so runs that differ    *)
(* only in those report the same address.                                   *)
C13_HubSpokeAddressIgnoresCode ==
    (cmd = "deploy-hs" /\ compared)
        => /\ computedAddress.bytes =
                hexDataSlice12(keccak256(
                    <<214, 148>>
                    \o hexDataSlice12(keccak256(
                           <<255>> \o AddressBytes(config.factoryContract)
                                   \o arrayify(formattedSalt)
                                   \o proxyBytecodeHash))
                    \o <<1>>))
           /\ Occurs(out, "ComputedAddress")

C13_Witness ==
    /\ cmd = "deploy-hs"
    /\ compared
    /\ pc = "Done"
    /\ artifact.bytecode # spokeArtifact.bytecode
    /\ Len(deployBytecode) > Len(artifact.bytecode)
    /\ computedAddress = computeCreate3Address(config.factoryContract, formattedSalt)

(* C14: when the constructor-argument list is empty (or absent), encoding   *)
(* does not fail and the init code is the artifact's raw bytecode: the      *)
(* deployBytecode of deploy, the hub and the spoke deploy bytecode of       *)
(* deploy-hs, the bytecode handed to the factory call, and in deploy the    *)
(* init code hashed for the computed address.                               *)
C14_EmptyArgsLeaveBytecode ==
    LET encoded == pc \in {"ArgsEncoded", "SaltFormatted", "Ready", "GasEstimated",
                           "Submitted", "Confirmed", "EventFound", "Verified", "Done"}
        noArgs == IF cmd = "deploy" THEN Len(config.constructorArgs.items) = 0
                                    ELSE Len(config.hubConstructorArgs.items) = 0
        noSpokeArgs == cmd = "deploy-hs" /\ Len(config.spokeConstructorArgs.items) = 0
    IN  /\ (encoded /\ noArgs) => deployBytecode = artifact.bytecode
        /\ (encoded /\ noSpokeArgs) => spokeDeployBytecode = spokeArtifact.bytecode
        /\ (submitCalls > 0 /\ noArgs) => txCode[1] = artifact.bytecode
        /\ (submitCalls > 0 /\ noSpokeArgs) => txCode[2] = spokeArtifact.bytecode
        /\ (compared /\ cmd = "deploy" /\ noArgs)
             => computedAddress.bytes =
                  hexDataSlice12(keccak256(<<255>>
                                     \o AddressBytes(config.factoryContract)
                                     \o arrayify(formattedSalt)
                                     \o keccak256(artifact.bytecode)))
        /\ errMsg.text = "types/values length mismatch"
             => \/ cmd = "deploy" /\ ~noArgs
                \/ cmd = "deploy-hs" /\ (~noArgs \/ ~noSpokeArgs)

C14_Witness ==
    /\ cmd = "deploy-hs"
    /\ pc = "Done"
    /\ Len(config.hubConstructorArgs.items) = 0
    /\ Len(config.spokeConstructorArgs.items) = 0
    /\ artifact.inputs = 1
    /\ txCode = <<artifact.bytecode, spokeArtifact.bytecode>>

\* An error was caught somewhere during the run: by the top-level handler,
\* by the config loader (unreadable file), by the gas estimate's catch or by
\* the catch of the event lookup's predicate (a log that does not parse).
ErrorCaught ==
    \/ errMsg # NoError
    \/ Occurs(out, "ConfigReadError")
    \/ Occurs(out, "WarnGasFallback")
    \/ Occurs(out, "GasUsed") /\ ParseErrorCaught(receiptLogs)

(* C15 as stated: a run that terminates exits 0 when it succeeded and 1     *)
(* whenever any error was caught during the run.                            *)
C15_AnyCaughtErrorExitsOne ==
    exited
        => /\ exitCode \in {0, 1}
           /\ exitCode = 0 => pc = "Done"
           /\ ErrorCaught => exitCode = 1

(* C15 amended: a run that terminates either reached its final log line     *)
(* and exits 0 with no message from the top-level handler, or had an error  *)
(* reach the top-level handler, which printed its message and exits 1;      *)
(* every error that reaches the handler ends the run that way.  An error    *)
(* caught before it reaches the handler (unreadable config file, failed     *)
(* gas estimate, a receipt log that does not parse) does not decide the     *)
(* exit status.                                                             *)
C15_ExitStatusFollowsHandler ==
    /\ exited
         => \/ pc = "Done" /\ exitCode = 0 /\ errMsg = NoError
                           /\ out[Len(out)] \in {"Initiated", "SameAddress"}
            \/ pc = "Failed" /\ exitCode = 1 /\ errMsg # NoError /\ errMsg.lines >= 1
    /\ pc \in {"Done", "Failed"} => exited
    /\ errMsg # NoError => exited /\ exitCode = 1
    /\ (Occurs(out, "ConfigReadError") /\ pc \notin {"Idle", "Failed"})
         => asked = (IF cmd = "deploy" THEN Questions(EmptyFile)
                                       ELSE HubSpokeQuestions(EmptyFile))

C15_Witness ==
    /\ cmd = "deploy"
    /\ Occurs(out, "ConfigReadError")
    /\ estOutcome = "rejected"
    /\ ParseErrorCaught(receiptLogs)
    /\ exited
    /\ pc = "Done"
    /\ exitCode = 0

(* C16: every request returned by loadConfig or loadHubSpokeConfig has a    *)
(* non-empty chains array and a factoryContract that is "0x" followed by    *)
(* exactly 40 hexadecimal digits, whether the fields came from the file or  *)
(* from prompts; when the file's factoryContract is malformed nothing is    *)
(* returned and the run fails with the validation error.                    *)
C16_ReturnedRequestWellFormed ==
    /\ config # EmptyFile
         => /\ config.chains.kind = "array"
            /\ Len(config.chains.items) >= 1
            /\ Len(config.factoryContract) = 42
            /\ SubSeq(config.factoryContract, 1, 2) = <<"0", "x">>
            /\ \A i \in 3..42 : config.factoryContract[i] \in HexChars
    /\ pc \notin {"Idle", "Failed"} => config # EmptyFile
    /\ (pc # "Idle" /\ file.factoryContract \in {ShortFactory, NonHexFactory})
         => /\ config = EmptyFile
            /\ pc = "Failed"
            /\ errMsg.text = ConfigErrorText
            /\ errMsg.lines >= 2

C16_Witness ==
    /\ pc = "ConfigLoaded"
    /\ "chainsInput" \in asked
    /\ "factoryContract" \notin asked
    /\ config.chains = Arr(<<10>>)
    /\ config.factoryContract = GoodFactory

(* C17: every chain id of the chain list of a request that passed config    *)
(* validation is a positive integer, whether the list came from the file    *)
(* or from the prompt, and no list holding zero or a negative number is     *)
(* handed to the factory call of deploy.                                    *)
C17_ChainIdsPositive ==
    /\ config # EmptyFile
         => \A i \in 1..Len(config.chains.items) : config.chains.items[i] > 0
    /\ (cmd = "deploy" /\ submitCalls > 0)
         => \A i \in 1..Len(txChains.items) : txChains.items[i] > 0

(* C18: in deploy-hs the chain list handed to deployHubAndSpokes is         *)
(* exactly the non-empty chains list that loadHubSpokeConfig validated and  *)
(* returned.                                                                *)
C18_SpokeListIsValidatedChains ==
    (cmd = "deploy-hs" /\ submitCalls > 0)
        => /\ txChains = config.chains
           /\ Len(txChains.items) >= 1

(* C19: the comparison of the verification step is case-insensitive: it    *)
(* reports a difference exactly when the two addresses differ as 20-byte    *)
(* values, so two spellings of one address that differ only in the case of  *)
(* their hexadecimal digits are treated as matched.                         *)
C19_ComparisonIgnoresCase ==
    addrOut.differ # <<>>
        => (addrOut.differ[1] <=> addrIn[1].bytes # addrIn[2].bytes)

C19_Witness ==
    /\ addrOut.differ = <<FALSE>>
    /\ addrIn[1].casing = "checksum"
    /\ addrIn[2].casing = "lower"
    /\ addrIn[1].bytes = addrIn[2].bytes

\* The messages of the fatal conditions the error taxonomy names.
FatalTexts ==
    {ConfigErrorText, KeyErrorText, "Command failed: forge build",
     "Artifact not found", EventErrorText}

\* The fields of the file that the final validation rejects.
MalformedFields ==
    {f \in {"factoryContract", "rpcUrl"} :
        \/ f = "factoryContract" /\ file.factoryContract # <<>>
                                 /\ ( \/ Len(file.factoryContract) # 42
                                      \/ \E i \in 3..Len(file.factoryContract) :
                                            file.factoryContract[i] \notin HexChars )
        \/ f = "rpcUrl" /\ file.rpcUrl = BadUrl}

(* C20 as stated: every fatal condition (config validation failure,         *)
(* missing key, compilation failure, missing artifact, missing event)       *)
(* reaches the top-level handler, which prints a message of exactly one     *)
(* line and exits 1.                                                        *)
C20_FatalMessageIsOneLine ==
    errMsg.text \in FatalTexts
        => /\ exited
           /\ exitCode = 1
           /\ errMsg.lines = 1

(* C20 amended: every such fatal condition reaches the top-level handler    *)
(* and exits 1; the message printed is one line for a missing key, a        *)
(* failed compilation, a missing artifact and a missing event, and for a    *)
(* config validation failure it is the heading line followed by one line    *)
(* per rejected field.                                                      *)
C20_FatalMessageLines ==
    /\ errMsg.text \in FatalTexts
         => /\ pc = "Failed"
            /\ exited
            /\ exitCode = 1
            /\ errMsg.lines = (IF errMsg.text = ConfigErrorText
                               THEN 1 + Cardinality(MalformedFields)
                               ELSE 1)
    /\ errMsg.text = ConfigErrorText => errMsg.lines >= 2
    /\ (MalformedFields # {} /\ pc # "Idle") => errMsg.text = ConfigErrorText

C20_Witness ==
    /\ cmd = "deploy-hs"
    /\ pc = "Failed"
    /\ errMsg.text = ConfigErrorText
    /\ errMsg.lines = 2
    /\ exitCode = 1

----------------------------------------------------------------------------
(* Claims C21..C30 *)

\* The log lines the output contract of `deploy` lists.
ListedLines ==
    {"Compiling", "ChainList", "TxHash", "DeployedAddress", "ComputedAddress",
     "WarnMismatch", "Initiated"}

IsListedLine(line) == line \in ListedLines

(* C21 as stated: on a successful `deploy` run the log lines appear in this *)
(* order, each exactly once: compilation notice, chain list, transaction    *)
(* hash, deployed address, computed address, final success line, with the   *)
(* mismatch warning, when the addresses differ, between the computed        *)
(* address and the final line.                                              *)
C21_DeployLogOrder ==
    (cmd = "deploy" /\ pc = "Done")
        => SelectSeq(out, IsListedLine)
             = <<"Compiling", "ChainList", "TxHash", "DeployedAddress",
                 "ComputedAddress">>
               \o (IF Mismatch THEN <<"WarnMismatch">> ELSE <<>>)
               \o <<"Initiated">>

\* The file supplies a valid value for every required field of the command.
RequiredComplete ==
    /\ ~file.readError
    /\ ~NeedsChains(file.chains)
    /\ IsEvmAddress(file.factoryContract)
    /\ IF cmd = "deploy" THEN file.contractName # ""
       ELSE file.hubContract # "" /\ file.spokeContract # ""
    /\ file.salt # <<>>
    /\ UrlParses(file.rpcUrl)

\* The constructor-argument questions the file leaves open: each is asked
\* when the file holds no array under the field's name.
OpenArgsQuestions ==
    IF cmd = "deploy"
    THEN {q \in {"constructorArgsInput"} : file.constructorArgs.kind # "array"}
    ELSE {q \in {"hubConstructorArgsInput", "spokeConstructorArgsInput"} :
            \/ q = "hubConstructorArgsInput" /\ file.hubConstructorArgs.kind # "array"
            \/ q = "spokeConstructorArgsInput"
                 /\ file.spokeConstructorArgs.kind # "array"}

(* C22 as stated: when the file supplies valid values for every required    *)
(* field, loading the config asks no question, also when the optional       *)
(* constructor-argument fields are omitted from the file.                   *)
C22_NoQuestionWhenRequiredComplete ==
    (RequiredComplete /\ pc # "Idle") => asked = {}

(* C22 amended: when the file supplies valid values for every required      *)
(* field, the only questions asked are those for the constructor-argument   *)
(* fields the file omits, one per omitted field; no question is asked when  *)
(* the file holds these arrays too.                                         *)
C22_OnlyOmittedArgsAsked ==
    (RequiredComplete /\ pc # "Idle") => asked = OpenArgsQuestions

C22_Witness ==
    /\ cmd = "deploy"
    /\ RequiredComplete
    /\ file.constructorArgs = NoArray
    /\ pc = "ConfigLoaded"
    /\ asked = {"constructorArgsInput"}
    /\ config.constructorArgs.kind = "array"

----------------------------------------------------------------------------
(* The factory on its chains: calls of deployEverywhere (by any account    *)
(* or by the client of src/src/cli.ts), messages relayed by the messenger, *)
(* and calls of deploy made by others.                                      *)

InitFactory ==
    /\ cmd = "deploy"
    /\ privateKey = "valid"
    /\ file = EmptyFile
    /\ pc = "Idle"
    /\ config = EmptyFile
    /\ asked = {}
    /\ artifact = NoArtifact
    /\ spokeArtifact = NoArtifact
    /\ deployBytecode = <<>>
    /\ spokeDeployBytecode = <<>>
    /\ formattedSalt = <<>>
    /\ gasEstimate = 0
    /\ estOutcome = "none"
    /\ warnedGas = 0
    /\ submitCalls = 0
    /\ txSent = 0
    /\ txGas = 0
    /\ txChains = NoArray
    /\ txCode = <<>>
    /\ chainTx = "none"
    /\ receiptLogs = <<>>
    /\ rpcLog = <<>>
    /\ deployedAddress = NoAddress
    /\ computedAddress = NoAddress
    /\ compared = FALSE
    /\ out = <<>>
    /\ errMsg = NoError
    /\ exited = FALSE
    /\ exitCode = 0
    /\ saltIn = <<>>
    /\ saltOut = NoSaltOut
    /\ addrIn = NoAddrIn
    /\ addrOut = NoAddrOut
    /\ FactoryIdle

\* The account of the client's wallet.
Wallet == Repeat(51, 20)

\* A modifier that checks the caller and not the cross-domain sender.
onlyMessengerCaller(this, sender, xSender) ==
    IF sender # _messenger THEN "CallerNotL2ToL2CrossDomainMessenger" ELSE ""

\* modifier onlyCrossDomainCallback: the error it reverts with, "" when it
\* lets the call through.
onlyCrossDomainCallback(this, sender, xSender) ==
    IF sender # _messenger THEN "CallerNotL2ToL2CrossDomainMessenger"
    ELSE IF xSender # this THEN "InvalidCrossDomainSender"
    ELSE ""

\* function deployEverywhere(chainIds, bytecode, constructorArgs, salt),
\* called by `sender` on the chain `chainid`.
DeployEverywhereCall(chainid, sender, chainIds, bytecode, constructorArgs, salt) ==
    LET this == FactoryAt(chainid)
        deployBytecode_ == bytes_concat(bytecode, constructorArgs)
        d == _deploy(this, deployBytecode_, salt, codeAt[chainid])
        message == encodeCall(deployBytecode_, salt)
        logs == ConstructorLogs(deployBytecode_, d.addr, chainid)
                \o <<ContractDeployed(this, d.addr, chainid)>>
                \o SendLoop(this, chainid, chainIds, message)
        call == [NoCall EXCEPT !.fn = "deployEverywhere", !.chain = chainid,
                               !.sender = sender, !.chainIds = chainIds,
                               !.bytecode = deployBytecode_, !.salt = salt]
    IN  /\ calls' = [calls EXCEPT !.deployEverywhere = @ + 1]
        /\ IF d.reverted
           THEN /\ lastCall' = [call EXCEPT !.reverted = TRUE]
                /\ UNCHANGED <<codeAt, chainLog, sentMessages>>
           ELSE /\ codeAt' = [codeAt EXCEPT ![chainid] = @ \cup {d.addr}]
                /\ chainLog' = [chainLog EXCEPT ![chainid] = @ \o logs]
                /\ sentMessages' = sentMessages \o MessagesOf(logs, chainid, this)
                /\ lastCall' = [call EXCEPT !.addr = d.addr, !.logs = logs]

\* function deploy(bytecode, salt) external onlyCrossDomainCallback, called
\* by `sender` on the chain `chainid`; xSender is what the messenger's
\* crossDomainMessageSender() returns during the call.
DeployCall(chainid, sender, xSender, bytecode, salt) ==
    LET this == FactoryAt(chainid)
        error == onlyCrossDomainCallback(this, sender, xSender)
        d == _deploy(this, bytecode, salt, codeAt[chainid])
        logs == ConstructorLogs(bytecode, d.addr, chainid)
        call == [NoCall EXCEPT !.fn = "deploy", !.chain = chainid,
                               !.sender = sender, !.xSender = xSender,
                               !.bytecode = bytecode, !.salt = salt]
    IN  /\ calls' = [calls EXCEPT !.deploy = @ + 1]
        /\ IF error # ""
           THEN /\ lastCall' = [call EXCEPT !.reverted = TRUE, !.error = error]
                /\ UNCHANGED <<codeAt, chainLog>>
           ELSE IF d.reverted
           THEN /\ lastCall' = [call EXCEPT !.reverted = TRUE]
                /\ UNCHANGED <<codeAt, chainLog>>
           ELSE /\ codeAt' = [codeAt EXCEPT ![chainid] = @ \cup {d.addr}]
                /\ chainLog' = [chainLog EXCEPT ![chainid] = @ \o logs]
                /\ lastCall' = [call EXCEPT !.addr = d.addr, !.logs = logs]

\* Any account calls deployEverywhere.
DeployEverywhere ==
    /\ calls.deployEverywhere + Pending < MaxCalls
    /\ Steps < MaxSteps
    /\ \E chainid \in Chains, chainIds \in ChainIdLists, r \in FactoryRequests :
         DeployEverywhereCall(chainid, Stranger, chainIds, r.bytecode,
                              r.constructorArgs, r.salt)
    /\ UNCHANGED <<clientView, runVars, saltVars, addrVars>>

\* An account that is not the messenger calls deploy.
DirectDeploy ==
    /\ Steps < MaxSteps
    /\ \E chainid \in Chains :
         DeployCall(chainid, Stranger, <<>>, ForeignRequest.bytecode, ForeignRequest.salt)
    /\ UNCHANGED <<sentMessages, clientView, runVars, saltVars, addrVars>>

\* The messenger relays a message that a contract other than the factory
\* sent from another chain to call the factory's deploy.
RelayForeign ==
    /\ Steps < MaxSteps
    /\ \E chainid \in Chains :
         DeployCall(chainid, _messenger, Stranger,
                    ForeignRequest.bytecode, ForeignRequest.salt)
    /\ UNCHANGED <<sentMessages, clientView, runVars, saltVars, addrVars>>

\* The sequence without its i-th element.
RemoveAt(seq, i) == SubSeq(seq, 1, i - 1) \o SubSeq(seq, i + 1, Len(seq))

\* The messenger of the destination chain relays a message of the factory:
\* it calls the target with the message.  A target without code does
\* nothing; a call that reverts leaves the message to be relayed again.
RelayMessage ==
    /\ Steps < MaxSteps
    /\ \E i \in 1..Len(sentMessages) :
         LET m == sentMessages[i]
         IN  IF m.target # FactoryAt(m.destination)
             THEN /\ sentMessages' = RemoveAt(sentMessages, i)
                  /\ calls' = [calls EXCEPT !.other = @ + 1]
                  /\ UNCHANGED <<codeAt, chainLog, lastCall>>
             ELSE /\ DeployCall(m.destination, _messenger, m.sender,
                                m.message.bytecode, m.message.salt)
                  /\ sentMessages' = IF lastCall'.reverted THEN sentMessages
                                     ELSE RemoveAt(sentMessages, i)
    /\ UNCHANGED <<clientView, runVars, saltVars, addrVars>>

\* src/src/cli.ts, after the receipt: the event is looked up, the address
\* computed and compared, the lines logged.  `view` is the client's run so
\* far, `receipt` what tx.wait() resolved to.
ClientReceipt(view, receipt, formattedSalt_, deployBytecode_) ==
    LET i == FindFrom(receipt.logs, 1)
        deployedAddress_ == getAddress(receipt.logs[i].addr)
        computedAddress_ == computeCreate2Address(FACTORY_ADDRESS, formattedSalt_,
                                                  deployBytecode_)
        warned == AddressesDiffer(deployedAddress_, computedAddress_)
        ended == [view EXCEPT !.stage = "done", !.ran = TRUE]
    IN  IF receipt.reverted
        THEN [ended EXCEPT !.error = "transaction failed"]
        ELSE IF i = 0
        THEN [ended EXCEPT !.error = EventErrorText]
        ELSE [ended EXCEPT !.deployedAddress = deployedAddress_,
                           !.computedAddress = computedAddress_,
                           !.warned = warned,
                           !.lines = @ \o <<"TxHash", "DeployedAddress", "ComputedAddress">>
                                       \o (IF warned THEN <<"WarnMismatch">> ELSE <<>>)
                                       \o <<"Deployed">>]

\* The `deploy` command of src/src/cli.ts is started: the callback awaits
\* loadConfig and returns to the event loop.
ClientStart ==
    /\ clientView.stage = "idle"
    /\ calls.deployEverywhere < MaxCalls
    /\ Steps < MaxSteps
    /\ clientView' = [clientView EXCEPT !.stage = "loading"]
    /\ UNCHANGED <<codeAt, chainLog, sentMessages, lastCall, calls,
                   runVars, saltVars, addrVars>>

\* loadConfig has resolved (config.rpcUrl leads to the chain `chainid`): the
\* contract is compiled, the artifact loaded, the arguments encoded, the
\* salt formatted, and deployContract logs the chain list and calls
\* factory.deployEverywhere, which the callback awaits.
ClientSubmit ==
    /\ clientView.stage = "loading"
    /\ \E chainid \in Chains, in \in ClientInputs :
         IF ~in.encodedArgs.ok \/ ~in.formattedSalt.ok
         THEN clientView' = [clientView EXCEPT
                                !.stage = "done", !.ran = TRUE,
                                !.in = IF ~in.encodedArgs.ok
                                       THEN [NoClientInput EXCEPT
                                                !.bytecode = in.bytecode]
                                       ELSE [in EXCEPT
                                                !.formattedSalt =
                                                    NoClientInput.formattedSalt],
                                !.lines = <<"Compiling">>,
                                !.error = IF ~in.encodedArgs.ok
                                          THEN "types/values length mismatch"
                                          ELSE "value out of range"]
         ELSE clientView' = [clientView EXCEPT
                                !.stage = "sending", !.chain = chainid, !.in = in,
                                !.lines = <<"Compiling", "ChainList">>]
    /\ UNCHANGED <<codeAt, chainLog, sentMessages, lastCall, calls,
                   runVars, saltVars, addrVars>>

\* The node has accepted the transaction: factory.deployEverywhere(...)
\* resolves and the callback awaits tx.wait().
ClientTxAccepted ==
    /\ clientView.stage = "sending"
    /\ clientView' = [clientView EXCEPT !.stage = "waiting"]
    /\ UNCHANGED <<codeAt, chainLog, sentMessages, lastCall, calls,
                   runVars, saltVars, addrVars>>

\* The chain mines the client's transaction: deployEverywhere is executed
\* at FACTORY_ADDRESS with config.chains, bytecode and encoded arguments
\* apart.  Where no contract sits at FACTORY_ADDRESS the call does nothing.
ClientTxMined ==
    /\ clientView.stage = "waiting"
    /\ LET in == clientView.in
           chainid == clientView.chain
       IN  \E chains \in {<<10, 20>>} :
             IF FactoryAt(chainid) # AddressBytes(FACTORY_ADDRESS)
             THEN /\ clientView' = [clientView EXCEPT
                                       !.stage = "mined",
                                       !.tx = [NoCall EXCEPT !.fn = "none",
                                                             !.chain = chainid,
                                                             !.sender = Wallet]]
                  /\ calls' = [calls EXCEPT !.other = @ + 1]
                  /\ UNCHANGED <<codeAt, chainLog, sentMessages, lastCall>>
             ELSE /\ DeployEverywhereCall(chainid, Wallet, chains, in.bytecode,
                                          in.encodedArgs.bytes,
                                          arrayify(in.formattedSalt.hex))
                  /\ clientView' = [clientView EXCEPT !.stage = "mined",
                                                      !.tx = lastCall']
    /\ UNCHANGED <<runVars, saltVars, addrVars>>

\* tx.wait() resolves with the receipt of the mined transaction (it rejects
\* when the transaction reverted) and the callback runs to its end.
ClientReadReceipt ==
    /\ clientView.stage = "mined"
    /\ clientView' = ClientReceipt(clientView, clientView.tx,
                                   clientView.in.formattedSalt.hex,
                                   clientView.in.deployBytecode)
    /\ UNCHANGED <<codeAt, chainLog, sentMessages, lastCall, calls,
                   runVars, saltVars, addrVars>>

NextFactory ==
    \/ DeployEverywhere
    \/ ClientStart
    \/ ClientSubmit
    \/ ClientTxAccepted
    \/ ClientTxMined
    \/ ClientReadReceipt
    \/ RelayMessage
    \/ DirectDeploy
    \/ RelayForeign

SpecFactory == InitFactory /\ [][NextFactory]_vars

\* The latest call was a relayed deploy that the factory executed.
RelayExecuted == lastCall.fn = "deploy" /\ ~lastCall.reverted

(* C23: every chain on which the factory executes a relayed deploy message  *)
(* realises the contract at the address the initiating chain realised it    *)
(* at for that init code and salt, and that address is the factory's        *)
(* computeAddress(init code, salt); the initiating chain is one where the   *)
(* factory sits at the same address.                                        *)
C23_SameAddressOnEveryChain ==
    RelayExecuted =>
        /\ lastCall.addr = computeAddress(FactoryAt(lastCall.chain),
                                          lastCall.bytecode, lastCall.salt)
        /\ lastCall.addr \in codeAt[lastCall.chain]
        /\ \E c \in Chains \ {lastCall.chain} :
              /\ FactoryAt(c) = FactoryAt(lastCall.chain)
              /\ Occurs(chainLog[c],
                        SentMessage(lastCall.chain, FactoryAt(c),
                                    encodeCall(lastCall.bytecode, lastCall.salt)))
              /\ Occurs(chainLog[c], ContractDeployed(FactoryAt(c), lastCall.addr, c))
              /\ lastCall.addr \in codeAt[c]
              /\ lastCall.addr = computeAddress(FactoryAt(c), lastCall.bytecode,
                                                lastCall.salt)

C23_Witness ==
    /\ RelayExecuted
    /\ lastCall.chain = 20
    /\ lastCall.addr \in codeAt[10]
    /\ lastCall.addr \in codeAt[20]
    /\ lastCall.addr # ZeroAddress

\* The entries of chainIds that are not the local chain, in list order.
RECURSIVE RemoteEntries(_, _)
RemoteEntries(chainIds, chainid) ==
    IF chainIds = <<>> THEN <<>>
    ELSE (IF Head(chainIds) = chainid THEN <<>> ELSE <<Head(chainIds)>>)
         \o RemoteEntries(Tail(chainIds), chainid)

\* The index of the first log of the sequence with this event name, 0 when none.
RECURSIVE FirstEvent(_, _, _)
FirstEvent(logs, event, i) ==
    IF i > Len(logs) THEN 0
    ELSE IF logs[i].event = event THEN i
    ELSE FirstEvent(logs, event, i + 1)

\* The latest call was a deployEverywhere that went through.
EverywhereDone == lastCall.fn = "deployEverywhere" /\ ~lastCall.reverted

(* C25: a successful deployEverywhere call sends exactly one relay message  *)
(* per entry of chainIds that differs from the local chain id, in list      *)
(* order, sends none to the local chain, and emits the local                *)
(* ContractDeployed event before the first message is sent; with an empty   *)
(* chainIds list it only deploys locally.                                   *)
C25_OneMessagePerRemoteEntry ==
    EverywhereDone =>
        LET this == FactoryAt(lastCall.chain)
            sent == SelectSeq(lastCall.logs, IsSentMessage)
            remote == RemoteEntries(lastCall.chainIds, lastCall.chain)
            deployed == ContractDeployed(this, lastCall.addr, lastCall.chain)
            first == FirstEvent(lastCall.logs, "SentMessage", 1)
        IN  /\ Len(sent) = Len(remote)
            /\ \A i \in 1..Len(sent) :
                  /\ sent[i].chainId = remote[i]
                  /\ sent[i].chainId # lastCall.chain
                  /\ sent[i].addr = this
                  /\ sent[i].message = encodeCall(lastCall.bytecode, lastCall.salt)
            /\ CountOf(lastCall.logs, deployed) = 1
            /\ first # 0 => \E j \in 1..(first - 1) : lastCall.logs[j] = deployed
            /\ lastCall.addr \in codeAt[lastCall.chain]
            /\ lastCall.chainIds = <<>> => lastCall.logs = <<deployed>>

C25_Witness ==
    /\ EverywhereDone
    /\ lastCall.chain = 10
    /\ lastCall.chainIds = <<10, 20>>
    /\ Len(SelectSeq(lastCall.logs, IsSentMessage)) = 1
    /\ Len(sentMessages) = 1
    /\ sentMessages[1].destination = 20

\* The call of deploy came from the messenger, relaying a message whose
\* cross-domain sender is the factory's own address.
FromOwnFactory(call) ==
    call.sender = _messenger /\ call.xSender = FactoryAt(call.chain)

(* C26: the remote entry point deploy creates a contract only when its     *)
(* caller is the cross-domain messenger and the message's cross-domain      *)
(* sender is the factory's own address; any other call reverts and leaves   *)
(* the chain's deployed-contract state unchanged.                           *)
C26_DeployOnlyFromOwnFactory ==
    [][ calls'.deploy = calls.deploy + 1
          => /\ lastCall'.fn = "deploy"
             /\ codeAt' # codeAt => FromOwnFactory(lastCall')
             /\ ~FromOwnFactory(lastCall')
                  => /\ lastCall'.reverted
                     /\ lastCall'.error # ""
                     /\ codeAt' = codeAt ]_vars

C26_Witness ==
    /\ lastCall.fn = "deploy"
    /\ lastCall.sender = _messenger
    /\ lastCall.xSender = Stranger
    /\ lastCall.reverted
    /\ lastCall.error = "InvalidCrossDomainSender"
    /\ codeAt[lastCall.chain] = {}

(* C27: deployEverywhere is all-or-nothing on the initiating chain: when    *)
(* the local CREATE2 deployment yields no code (for instance because the    *)
(* same init code and salt were already deployed there), the whole call     *)
(* reverts, so no ContractDeployed event is emitted and no relay message is *)
(* sent to any chain.                                                       *)
C27_EverywhereAllOrNothing ==
    [][ ( /\ calls'.deployEverywhere = calls.deployEverywhere + 1
          /\ create2(FactoryAt(lastCall'.chain), lastCall'.bytecode, lastCall'.salt,
                     codeAt[lastCall'.chain]) = ZeroAddress )
          => /\ lastCall'.fn = "deployEverywhere"
             /\ lastCall'.reverted
             /\ lastCall'.logs = <<>>
             /\ chainLog' = chainLog
             /\ sentMessages' = sentMessages
             /\ codeAt' = codeAt ]_vars

C27_Witness ==
    /\ lastCall.fn = "deployEverywhere"
    /\ lastCall.reverted
    /\ lastCall.chainIds = <<30, 20>>
    /\ lastCall.bytecode # NoCodeBytecode
    /\ Create2Target(FactoryAt(lastCall.chain), lastCall.bytecode, lastCall.salt)
           \in codeAt[lastCall.chain]
    /\ sentMessages = <<>>

\* The client's run went through: the factory executed its transaction and
\* the callback reached its final line.
ClientDone ==
    /\ clientView.stage = "done"
    /\ clientView.error = ""
    /\ clientView.tx.fn = "deployEverywhere"
    /\ clientView.tx.sender = Wallet

(* C24 as stated: for the same deployment (factory address, salt string,    *)
(* bytecode, constructor args) the address the client computes with         *)
(* computeCreate2Address equals the address the factory's CREATE2           *)
(* deployment yields locally, bytecode and encoded args being passed to     *)
(* the factory separately, and so the client's run against this factory     *)
(* never logs the mismatch warning.                                         *)
C24_ClientAgreesWithFactory ==
    ClientDone =>
        /\ ~clientView.tx.reverted
        /\ clientView.computedAddress.bytes = clientView.tx.addr
        /\ clientView.computedAddress.bytes
             = computeAddress(FactoryAt(clientView.tx.chain), clientView.tx.bytecode, clientView.tx.salt)
        /\ ~clientView.warned
        /\ ~Occurs(clientView.lines, "WarnMismatch")

(* C28 as stated: whenever gas estimation fails, the fallback gas limit     *)
(* named in the logged warning equals the gas limit of the transaction that *)
(* is then submitted, in `deploy` and in `deploy-hs`.                       *)
C28_WarnedGasIsSubmittedGas ==
    (Occurs(out, "WarnGasFallback") /\ txSent > 0) => txGas = warnedGas

(* C29 as stated: the observed address used for verification is always     *)
(* taken from a ContractDeployed event emitted by the configured factory    *)
(* contract; a log with the same event signature emitted by any other       *)
(* contract in the same transaction is never used as the observed address.  *)
C29_ObservedAddressFromFactory ==
    deployedAddress # NoAddress
        => \E i \in 1..Len(receiptLogs) :
              /\ receiptLogs[i].emitter = "factory"
              /\ receiptLogs[i].event = "ContractDeployed"
              /\ deployedAddress = getAddress(receiptLogs[i].addr)
              /\ \A j \in 1..(i - 1) :
                    ~(receiptLogs[j].emitter # "factory"
                      /\ receiptLogs[j].event = "ContractDeployed")

\* The ContractDeployed event has been found in the confirmed receipt.
EventWasFound == deployedAddress # NoAddress

(* C30 as stated: once the ContractDeployed event has been found in the     *)
(* confirmed receipt, no remaining step of the run can fail or depend on a  *)
(* further network request: the run ends with its final log line and exit   *)
(* status 0, in `deploy` and in `deploy-hs`.                                *)
C30_NothingFailsAfterEvent ==
    EventWasFound
        => /\ pc \in {"EventFound", "Verified", "Done"}
           /\ ~Occurs(rpcLog, "eth_chainId")
           /\ exited => exitCode = 0

(* C30 amended: in `deploy`, once the event has been found no remaining     *)
(* step fails or makes a network request, and the run ends only with its    *)
(* final log line and exit status 0.  In `deploy-hs` the address            *)
(* comparison cannot fail either, but the closing                           *)
(* lines first make one network request (getNetwork): when it is answered   *)
(* the run ends with its final log line and exit status 0, and when it      *)
(* fails the run ends with that error and exit status 1.                    *)
C30_OnlyGetNetworkCanFailAfterEvent ==
    EventWasFound =>
        /\ pc \in {"EventFound", "Verified", "Done", "Failed"}
        /\ cmd \in {"deploy", "deploy-hs"}
        /\ pc \in {"EventFound", "Verified"} => ~exited /\ ~Occurs(rpcLog, "eth_chainId")
        /\ cmd = "deploy"
             => /\ pc # "Failed"
                /\ ~Occurs(rpcLog, "eth_chainId")
                /\ pc = "Done" => /\ exited
                                  /\ exitCode = 0
                                  /\ out[Len(out)] = "Initiated"
        /\ cmd = "deploy-hs"
             => /\ pc = "Done" => /\ exited
                                  /\ exitCode = 0
                                  /\ out[Len(out)] = "SameAddress"
                                  /\ CountOf(rpcLog, "eth_chainId") = 1
                /\ pc = "Failed" => /\ exited
                                    /\ exitCode = 1
                                    /\ errMsg.text = NetworkErrorText
                                    /\ rpcLog[Len(rpcLog)] = "eth_chainId"
                                    /\ CountOf(rpcLog, "eth_chainId") = 1
                                    /\ ~Occurs(out, "SameAddress")

C30_Witness ==
    /\ cmd = "deploy-hs"
    /\ EventWasFound
    /\ ~Mismatch
    /\ compared
    /\ pc = "Failed"
    /\ errMsg.text = NetworkErrorText
    /\ exitCode = 1

============================================================================
